---- MODULE Spec2Model ----
(***************************************************************************)
(* Session lifecycle (SurveillanceWebSocketHandler, WebSocketManager) and  *)
(* inference batching (ObjectDetectionService) of person_of_interest.      *)
(*                                                                         *)
(* Every coroutine is a process; an action is the code a coroutine runs    *)
(* between two awaits (asyncio runs that code without interleaving).       *)
(***************************************************************************)
EXTENDS Integers, Sequences, FiniteSets, TLC

\* ------------------------------------------------------------------ bounds
NumClients == 2     \* distinct client ids
MaxSessions == 2    \* websocket connections that arrive
MaxTasks == 2       \* frame-processing tasks created in all
MaxTime == 4        \* horizon of the heartbeat clock, in units of 30 s
MaxSubs == 4        \* calls of ObjectDetectionService.detect
MaxClock == 3       \* horizon of the batcher's clock, in units of 50 ms
MaxElapsed == 7     \* horizon of a detect() call's stopwatch, in seconds
MaxCacheClock == 22 \* horizon of the clock when only the cache is exercised
MaxUpdates == 3     \* calls of TrackingService.update
MaxX == 3           \* leftmost x of a bounding box
MaxBoxes == 2       \* predictions, and detections, of one association
MaxCoord == 3       \* box corners lie on 0, 5, .., 5 * MaxCoord
MaxPos == 1         \* coordinates of a history point's position
MaxStamp == 1       \* timestamps of history points, in seconds
MaxHistory == 3     \* history points of the track whose velocity is taken
MaxMisses == 2      \* consecutive misses of the track that is updated
MaxAttempts == 5     \* connection attempts made with one client id
MaxSenders == 2     \* concurrent send_message calls for one client

\* ------------------------------------------------------- program constants
MaxReconnectAttempts == 3   \* self._max_reconnect_attempts
HeartbeatInterval == 1      \* timedelta(seconds=30), one clock unit
SweepPeriod == 2            \* asyncio.sleep(60), two clock units
MaxBatch == 4               \* while len(batch) < 4
MaxWait == 2                \* wait_for(get, timeout=0.1), two 50 ms units
CacheTtl == 20              \* TTLCache(ttl=1.0), twenty 50 ms units
MaxQueueSize == 100         \* Queue(maxsize=settings.MAX_FRAME_QUEUE_SIZE)
DetectCeiling == 5          \* wait_for(future, timeout=5.0), in seconds
IouThresholdTenths == 3     \* self.iou_threshold = 0.3
InvEpsilon == 1000000       \* max(union, 1e-6): areas are counted in 1e-6
HistoryLimit == 30          \* if len(self.track_history[track_id]) > 30
OutboundQueueSize == 100    \* asyncio.Queue(maxsize=100)
PutTimeoutUnits == 1        \* wait_for(queue.put(message), timeout=1.0)

Clients == 1..NumClients
Sessions == 1..MaxSessions
TaskIds == 1..MaxTasks
NoClient == 0               \* query parameter client_id missing
NoSocket == 0
NoTask == 0
NoBeat == -1
SubIds == 1..MaxSubs
Frames == {"f0", "f1"}      \* f0: a frame in which nothing is detected

VARIABLES
    pc,         \* position of the handle_connection call of each websocket
    cid,        \* client_id each websocket carries
    ws,         \* websocket objects: [state, code]
    exitPath,   \* how a handle_connection call left (history)
    curTask,    \* local variable task of _process_frame
    hActive,    \* handler._active_connections
    hTasks,     \* handler._processing_tasks
    task,       \* asyncio tasks running _process_frame_data
    mConn,      \* manager.active_connections
    mHeart,     \* manager.client_heartbeats
    mQueue,     \* manager.client_message_queues
    closes,     \* completed _cleanup_client calls per client id (history)
    now,        \* heartbeat clock
    sweepPc,    \* position of _periodic_cleanup
    sweepWake,  \* time its asyncio.sleep(60) ends
    sweepTodo,  \* stale_clients still to disconnect
    sweepCur,   \* client whose disconnect awaits close()
    sub,        \* detect() calls: frame, future, what the caller got
    bq,         \* service._batch_queue
    batch,      \* local lists batch / futures / frame_hashes of _process_batch
    bpc,        \* position of _process_batch
    deadline,   \* time the pending wait_for(get) times out
    cache,      \* service.result_cache
    clock,      \* batcher clock
    batchFirst, \* arrival time of the first item of batch (history)
    batchLast,  \* arrival time of its last item (history)
    last,       \* the last batch sent to the detector (history)
    caller,     \* one detect() call, the queue's fill and the batcher's task
    lookup,     \* what the last result_cache.get returned (history)
    tracker,    \* the TrackingService object and its update calls
    assoc,      \* arguments and locals of an _associate_detections call
    iou,        \* arguments and results of _calculate_iou calls
    velo,       \* argument and result of a _calculate_velocity call
    sender,     \* position of a WebSocketManager.send_message call
    track,      \* one track before and after an _update_track call
    outbox,     \* one client's outbound queue and the send_message calls on it
    handler,    \* one client id's entries of the handler and its connection attempts
    heard       \* clients a message of which arrived in the current 30 seconds

sessVars == <<pc, cid, ws, exitPath, curTask, hActive, hTasks, task,
              mConn, mHeart, mQueue, closes, now,
              sweepPc, sweepWake, sweepTodo, sweepCur>>

batchVars == <<sub, bq, batch, bpc, deadline, cache, clock,
               batchFirst, batchLast, last>>

svcVars == <<caller, lookup, tracker, assoc, iou, velo, sender, track, outbox,
            handler, heard>>

vars == <<sessVars, batchVars, svcVars>>

\* ------------------------------------------------------------- websockets
\* ASGI websocket: close() on a socket that is already closed raises.
CloseRaises(w) == ws[w].state = "closed"

Closed(code) == [state |-> "closed", code |-> code]

\* ------------------------------------------------------------------- Init
NoConn == [present |-> FALSE, websocket |-> NoSocket, reconnect_attempts |-> 0]
NoQueue == [present |-> FALSE, msgs |-> <<>>]

SessInit ==
    /\ pc = [s \in Sessions |-> "idle"]
    /\ cid = [s \in Sessions |-> NoClient]
    /\ ws = [s \in Sessions |-> [state |-> "connecting", code |-> 0]]
    /\ exitPath = [s \in Sessions |-> "none"]
    /\ curTask = [s \in Sessions |-> NoTask]
    /\ hActive = [c \in Clients |-> NoConn]
    /\ hTasks = [c \in Clients |-> NoTask]
    /\ task = [t \in TaskIds |-> "unborn"]
    /\ mConn = [c \in Clients |-> NoSocket]
    /\ mHeart = [c \in Clients |-> NoBeat]
    /\ mQueue = [c \in Clients |-> NoQueue]
    /\ closes = [c \in Clients |-> 0]
    /\ now = 0
    /\ sweepPc = "sleep"
    /\ sweepWake = SweepPeriod
    /\ sweepTodo = {}
    /\ sweepCur = NoClient

NoSub == [frame |-> "f0", fut |-> "none", result |-> <<>>,
          outcome |-> "none", value |-> <<>>]
NoEntry == [present |-> FALSE, value |-> <<>>, at |-> 0]
NoDispatch == [count |-> 0, batch |-> <<>>, results |-> <<>>,
               failed |-> FALSE, first |-> 0, last |-> 0, at |-> 0]

\* _compute_frame_hash: the module never imports cv2, so cv2.resize raises
\* NameError and the except clause returns ""
FrameHash(f) == ""

Hashes == {FrameHash(f) : f \in Frames}

BatchInit ==
    /\ sub = [i \in SubIds |-> NoSub]
    /\ bq = <<>>
    /\ batch = <<>>
    /\ bpc = "get"
    /\ deadline = MaxWait
    /\ cache = [h \in Hashes |-> NoEntry]
    /\ clock = 0
    /\ batchFirst = 0
    /\ batchLast = 0
    /\ last = NoDispatch

\* no detect() call under the stopwatch yet, the queue empty, the batcher's
\* task created by __init__
NoCall == [pc |-> "idle", fut |-> "none", outcome |-> "none", ahead |-> -1,
           elapsed |-> 0, waited |-> 0, qsize |-> 0, task |-> "running"]

\* no result stored and no get made yet
NoLookup == [stored |-> FALSE, since |-> 0, expect |-> <<>>, reads |-> 0,
             count |-> 0, hit |-> FALSE, value |-> <<>>, time |-> 0]

\* TrackingService.__init__: no track, the lock free, no update made yet;
\* callers lists the session each update call was made for (history)
NoTracks == [tracked_objects |-> {}, locked |-> FALSE, log |-> <<>>,
             callers |-> <<>>]

\* _associate_detections not called yet
NoAssoc == [called |-> FALSE, predictions |-> <<>>, detections |-> <<>>,
            cost_matrix |-> [rows |-> 0, cols |-> 0, scale |-> 1, at |-> <<>>],
            assigned |-> {}, matches |-> {},
            unmatched_detections |-> {}, unmatched_tracks |-> {}]

\* _calculate_iou not called yet
NoIou == [called |-> FALSE, bbox1 |-> <<0, 0, 0, 0>>, bbox2 |-> <<0, 0, 0, 0>>,
          there |-> [num |-> 0, den |-> 1], back |-> [num |-> 0, den |-> 1]]

\* (0.0, 0.0); a velocity component is the fraction num / den
ZeroVelocity == <<[num |-> 0, den |-> 1], [num |-> 0, den |-> 1]>>

\* _calculate_velocity not called yet
NoVelo == [called |-> FALSE, history |-> <<>>, velocity |-> ZeroVelocity]

\* a track: its entry of tracked_objects, its list of track_history, and
\* whether kalman_filters holds a filter for it
NoTrack == [consecutive_misses |-> 0, last_seen |-> 0, history |-> <<>>,
            kalman_filter |-> FALSE, raised |-> "none"]

\* _update_track not called yet
NoUpdate == [called |-> FALSE, before |-> NoTrack, bbox |-> <<0, 0, 0, 0>>,
             current_time |-> 0, after |-> NoTrack]

\* the send_message calls that are followed; the message of call k is k
Senders == 1..MaxSenders

\* the client not connected, no send_message call started.  queue holds the
\* messages of the calls that are followed, backlog counts the messages other
\* calls have put before them; enq and sent are histories: the messages put
\* on the queue and the messages handed to the socket, in their order
NoOutbox == [connected |-> FALSE, socket |-> "none", queue |-> <<>>,
             backlog |-> 0,
             call |-> [k \in Senders |-> [pc |-> "idle", waited |-> 0,
                                          outcome |-> "none"]],
             enq |-> <<>>, sent |-> <<>>]

\* the connection attempts made with one client id, numbered in their order
Attempts == 1..MaxAttempts

\* a connection attempt that has not arrived: no task of its own, no exit yet
NoAttempt == [pc |-> "idle", task |-> "none", exit |-> "none", slept |-> FALSE]

\* SurveillanceWebSocketHandler.__init__ for one client id: no entry in
\* _active_connections, none in _processing_tasks (task 0), the manager's
\* tables without the client
NoHandler == [active_connections |-> [present |-> FALSE, websocket |-> 0,
                                      reconnect_attempts |-> 0],
              processing_tasks |-> 0,
              manager |-> FALSE,
              call |-> [a \in Attempts |-> NoAttempt]]

\* no send_message call under way
NoSend == [pc |-> "idle", client |-> NoClient, websocket |-> NoSocket]

SvcInit ==
    /\ caller = NoCall
    /\ lookup = NoLookup
    /\ tracker = NoTracks
    /\ assoc = NoAssoc
    /\ iou = NoIou
    /\ velo = NoVelo
    /\ sender = NoSend
    /\ track = NoUpdate
    /\ outbox = NoOutbox
    /\ handler = NoHandler
    /\ heard = {}

Init == SessInit /\ BatchInit /\ SvcInit

\* --------------------------------------------------- WebSocketManager
\* disconnect that forgets the heartbeat and the queue
DeleteConnectionOnly(c) ==
    IF mConn[c] = NoSocket
    THEN UNCHANGED <<mConn, mHeart, mQueue>>
    ELSE /\ mConn' = [mConn EXCEPT ![c] = NoSocket]
         /\ UNCHANGED <<mHeart, mQueue>>
\* disconnect emptying the three tables
DeleteEntriesOfAll(c) ==
    IF mConn[c] = NoSocket
    THEN UNCHANGED <<mConn, mHeart, mQueue>>
    ELSE /\ mConn' = [k \in Clients |-> NoSocket]
         /\ mHeart' = [k \in Clients |-> NoBeat]
         /\ mQueue' = [k \in Clients |-> NoQueue]

\* the three del statements of disconnect; the first missing key raises
\* KeyError and skips the rest
DeleteEntries(c) ==
    IF mConn[c] = NoSocket
    THEN UNCHANGED <<mConn, mHeart, mQueue>>
    ELSE /\ mConn' = [mConn EXCEPT ![c] = NoSocket]
         /\ IF mHeart[c] = NoBeat
            THEN UNCHANGED <<mHeart, mQueue>>
            ELSE /\ mHeart' = [mHeart EXCEPT ![c] = NoBeat]
                 /\ mQueue' = [mQueue EXCEPT ![c] = NoQueue]

\* websockets are numbered in their order of arrival
NextToArrive(s) == pc[s] = "idle" /\ \A r \in Sessions : r < s => pc[r] # "idle"

\* WebSocketManager.connect
MgrConnect(s, c) ==
    /\ NextToArrive(s)
    /\ pc' = [pc EXCEPT ![s] = "managed"]
    /\ cid' = [cid EXCEPT ![s] = c]
    /\ ws' = [ws EXCEPT ![s] = [state |-> "open", code |-> 0]]
    /\ mConn' = [mConn EXCEPT ![c] = s]
    /\ mHeart' = [mHeart EXCEPT ![c] = now]
    /\ mQueue' = [mQueue EXCEPT ![c] = [present |-> TRUE, msgs |-> <<>>]]
    /\ UNCHANGED <<batchVars, svcVars>>
    /\ UNCHANGED <<exitPath, curTask, hActive, hTasks, task, closes, now,
                   sweepPc, sweepWake, sweepTodo, sweepCur>>

\* the peer of an open websocket goes away
PeerClose(s) ==
    /\ pc[s] \notin {"idle", "done"}
    /\ ws[s].state # "closed"
    /\ ws' = [ws EXCEPT ![s] = Closed(1001)]
    /\ UNCHANGED <<batchVars, svcVars>>
    /\ UNCHANGED <<pc, cid, exitPath, curTask, hActive, hTasks, task,
                   mConn, mHeart, mQueue, closes, now,
                   sweepPc, sweepWake, sweepTodo, sweepCur>>

\* ------------------------------------------- SurveillanceWebSocketHandler
\* handle_connection up to its first await
HandleConnection(s, c) ==
    /\ NextToArrive(s)
    /\ cid' = [cid EXCEPT ![s] = c]
    /\ IF c = NoClient
       THEN /\ ws' = [ws EXCEPT ![s] = Closed(4000)]
            /\ pc' = [pc EXCEPT ![s] = "done"]
            /\ exitPath' = [exitPath EXCEPT ![s] = "noid"]
            /\ UNCHANGED hActive
       ELSE IF hActive[c].present
       THEN IF hActive[c].reconnect_attempts >= MaxReconnectAttempts
            THEN /\ ws' = [ws EXCEPT ![s] = Closed(4001)]
                 /\ pc' = [pc EXCEPT ![s] = "cleanup"]
                 /\ exitPath' = [exitPath EXCEPT ![s] = "refused"]
                 /\ UNCHANGED hActive
            ELSE /\ hActive' = [hActive EXCEPT ![c].reconnect_attempts = @ + 1]
                 /\ pc' = [pc EXCEPT ![s] = "reconnect_sleep"]
                 /\ UNCHANGED <<ws, exitPath>>
       ELSE /\ pc' = [pc EXCEPT ![s] = "accept"]
            /\ UNCHANGED <<ws, exitPath, hActive>>
    /\ UNCHANGED <<batchVars, svcVars>>
    /\ UNCHANGED <<curTask, hTasks, task, mConn, mHeart, mQueue, closes, now,
                   sweepPc, sweepWake, sweepTodo, sweepCur>>

\* _initialize_connection: accept, then register
Register(s) ==
    [hActive EXCEPT ![cid[s]] =
        [present |-> TRUE, websocket |-> s, reconnect_attempts |-> 0]]

InitializeConnection(s) ==
    /\ pc[s] = "accept"
    /\ IF ws[s].state = "closed"
       THEN /\ pc' = [pc EXCEPT ![s] = "cleanup"]
            /\ exitPath' = [exitPath EXCEPT ![s] = "error"]
            /\ UNCHANGED <<ws, hActive>>
       ELSE /\ ws' = [ws EXCEPT ![s] = [state |-> "open", code |-> 0]]
            /\ hActive' = Register(s)
            /\ pc' = [pc EXCEPT ![s] = "receive"]
            /\ UNCHANGED exitPath
    /\ UNCHANGED <<batchVars, svcVars>>
    /\ UNCHANGED <<cid, curTask, hTasks, task, mConn, mHeart, mQueue, closes,
                   now, sweepPc, sweepWake, sweepTodo, sweepCur>>

\* _handle_reconnection after the sleep: accept, register, return
Reconnect(s) ==
    /\ pc[s] = "reconnect_sleep"
    /\ pc' = [pc EXCEPT ![s] = "cleanup"]
    /\ IF ws[s].state = "closed"
       THEN /\ exitPath' = [exitPath EXCEPT ![s] = "error"]
            /\ UNCHANGED <<ws, hActive>>
       ELSE /\ ws' = [ws EXCEPT ![s] = [state |-> "open", code |-> 0]]
            /\ hActive' = Register(s)
            /\ exitPath' = [exitPath EXCEPT ![s] = "replaced"]
    /\ UNCHANGED <<batchVars, svcVars>>
    /\ UNCHANGED <<cid, curTask, hTasks, task, mConn, mHeart, mQueue, closes,
                   now, sweepPc, sweepWake, sweepTodo, sweepCur>>

\* the message loop: a frame message (_handle_client_message, _process_frame);
\* the frame decodes and the processing task is created, or decoding raises
\* and _process_frame logs it
ReceiveFrame(s, decodable) ==
    /\ pc[s] = "receive"
    /\ ws[s].state = "open"
    /\ \E t \in TaskIds :
        /\ task[t] = "unborn"
        /\ \A u \in TaskIds : u < t => task[u] # "unborn"
        /\ IF decodable
           THEN /\ task' = [task EXCEPT ![t] = "pending"]
                /\ hTasks' = [hTasks EXCEPT ![cid[s]] = t]
                /\ curTask' = [curTask EXCEPT ![s] = t]
                /\ pc' = [pc EXCEPT ![s] = "await_task"]
           ELSE /\ task' = [task EXCEPT ![t] = "undecoded"]
                /\ UNCHANGED <<hTasks, curTask, pc>>
    /\ heard' = heard \cup {cid[s]}
    /\ UNCHANGED <<batchVars, caller, lookup, tracker, assoc, iou, velo, sender,
                   track, outbox, handler>>
    /\ UNCHANGED <<cid, ws, exitPath, hActive, mConn, mHeart, mQueue, closes,
                   now, sweepPc, sweepWake, sweepTodo, sweepCur>>

\* a message that ends the loop with an exception: type "metadata" calls the
\* missing _process_metadata, a message without "type" raises KeyError
ReceiveBadMessage(s) ==
    /\ pc[s] = "receive"
    /\ ws[s].state = "open"
    /\ pc' = [pc EXCEPT ![s] = "cleanup"]
    /\ exitPath' = [exitPath EXCEPT ![s] = "error"]
    /\ heard' = heard \cup {cid[s]}
    /\ UNCHANGED <<batchVars, caller, lookup, tracker, assoc, iou, velo, sender,
                   track, outbox, handler>>
    /\ UNCHANGED <<cid, ws, curTask, hActive, hTasks, task, mConn, mHeart,
                   mQueue, closes, now, sweepPc, sweepWake, sweepTodo, sweepCur>>

\* receive_json raises: WebSocketDisconnect, or the socket was closed
ReceiveDisconnect(s) ==
    /\ pc[s] = "receive"
    /\ ws[s].state = "closed"
    /\ pc' = [pc EXCEPT ![s] = "cleanup"]
    /\ exitPath' = [exitPath EXCEPT ![s] = "disconnect"]
    /\ UNCHANGED <<batchVars, svcVars>>
    /\ UNCHANGED <<cid, ws, curTask, hActive, hTasks, task, mConn, mHeart,
                   mQueue, closes, now, sweepPc, sweepWake, sweepTodo, sweepCur>>

\* _handle_timeout: the socket the table holds for the client id
TimeoutSocket(s) == hActive[cid[s]].websocket

\* the read timer fires first: asyncio.TimeoutError, _handle_timeout, break
ReceiveTimeout(s) ==
    /\ pc[s] = "receive"
    /\ ws[s].state = "open"
    /\ pc' = [pc EXCEPT ![s] = "cleanup"]
    /\ exitPath' = [exitPath EXCEPT ![s] = "timeout"]
    /\ IF hActive[cid[s]].present /\ ~CloseRaises(TimeoutSocket(s))
       THEN ws' = [ws EXCEPT ![TimeoutSocket(s)] = Closed(4002)]
       ELSE UNCHANGED ws
    /\ UNCHANGED <<batchVars, svcVars>>
    /\ UNCHANGED <<cid, curTask, hActive, hTasks, task, mConn, mHeart,
                   mQueue, closes, now, sweepPc, sweepWake, sweepTodo, sweepCur>>

\* _process_frame_data runs: self.object_detector is no attribute of the
\* handler, so the pipeline raises AttributeError after preprocessing
TaskRun(t) ==
    /\ task[t] = "pending"
    /\ task' = [task EXCEPT ![t] = "failed"]
    /\ UNCHANGED <<batchVars, svcVars>>
    /\ UNCHANGED <<pc, cid, ws, exitPath, curTask, hActive, hTasks, mConn,
                   mHeart, mQueue, closes, now,
                   sweepPc, sweepWake, sweepTodo, sweepCur>>

\* the timeout of a frame taken for the end of the connection
FrameTimeoutBreaks(s) ==
    /\ pc[s] = "await_task"
    /\ task[curTask[s]] = "pending"
    /\ task' = [task EXCEPT ![curTask[s]] = "timedout"]
    /\ pc' = [pc EXCEPT ![s] = "cleanup"]
    /\ exitPath' = [exitPath EXCEPT ![s] = "error"]
    /\ UNCHANGED <<batchVars, svcVars>>
    /\ UNCHANGED <<cid, ws, curTask, hActive, hTasks, mConn,
                   mHeart, mQueue, closes, now,
                   sweepPc, sweepWake, sweepTodo, sweepCur>>

\* asyncio.wait_for(task, timeout=5.0) times out: the task is cancelled, the
\* error is logged and the loop goes on
FrameTimeout(s) ==
    /\ pc[s] = "await_task"
    /\ task[curTask[s]] = "pending"
    /\ task' = [task EXCEPT ![curTask[s]] = "timedout"]
    /\ pc' = [pc EXCEPT ![s] = "receive"]
    /\ UNCHANGED <<batchVars, svcVars>>
    /\ UNCHANGED <<cid, ws, exitPath, curTask, hActive, hTasks, mConn,
                   mHeart, mQueue, closes, now,
                   sweepPc, sweepWake, sweepTodo, sweepCur>>

\* wait_for returns: the task's exception is logged by _process_frame; a task
\* cancelled from outside raises CancelledError, which no except clause of
\* handle_connection catches, so only the finally clause runs
FrameReturn(s) ==
    /\ pc[s] = "await_task"
    /\ task[curTask[s]] \in {"failed", "cancelled"}
    /\ IF task[curTask[s]] = "cancelled"
       THEN /\ pc' = [pc EXCEPT ![s] = "cleanup"]
            /\ exitPath' = [exitPath EXCEPT ![s] = "cancelled"]
       ELSE /\ pc' = [pc EXCEPT ![s] = "receive"]
            /\ UNCHANGED exitPath
    /\ UNCHANGED <<batchVars, svcVars>>
    /\ UNCHANGED <<cid, ws, curTask, hActive, hTasks, task, mConn, mHeart,
                   mQueue, closes, now, sweepPc, sweepWake, sweepTodo, sweepCur>>

\* task.cancel()
Cancel(st) == IF st = "pending" THEN "cancelled" ELSE st

CountClose(c) == [closes EXCEPT ![c] = IF @ < 2 THEN @ + 1 ELSE @]

\* _cleanup_client up to the await in WebSocketManager.disconnect
CleanupClient(s) ==
    /\ pc[s] = "cleanup"
    /\ LET c == cid[s] IN
       /\ IF hTasks[c] # NoTask
          THEN /\ task' = [task EXCEPT ![hTasks[c]] = Cancel(@)]
               /\ hTasks' = [hTasks EXCEPT ![c] = NoTask]
          ELSE UNCHANGED <<task, hTasks>>
       /\ IF mConn[c] # NoSocket /\ ~CloseRaises(mConn[c])
          THEN /\ ws' = [ws EXCEPT ![mConn[c]] = Closed(1000)]
               /\ pc' = [pc EXCEPT ![s] = "disconnect"]
               /\ UNCHANGED closes
          ELSE /\ pc' = [pc EXCEPT ![s] = "return"]
               /\ closes' = CountClose(c)
               /\ UNCHANGED ws
    /\ UNCHANGED <<batchVars, svcVars>>
    /\ UNCHANGED <<cid, exitPath, curTask, hActive, mConn, mHeart, mQueue,
                   now, sweepPc, sweepWake, sweepTodo, sweepCur>>

\* WebSocketManager.disconnect after close() returned, called by the handler
CleanupDisconnect(s) ==
    /\ pc[s] = "disconnect"
    /\ DeleteEntries(cid[s])
    /\ pc' = [pc EXCEPT ![s] = "return"]
    /\ closes' = CountClose(cid[s])
    /\ UNCHANGED <<batchVars, svcVars>>
    /\ UNCHANGED <<cid, ws, exitPath, curTask, hActive, hTasks, task, now,
                   sweepPc, sweepWake, sweepTodo, sweepCur>>

\* handle_connection returns to websocket_endpoint; the server closes a
\* socket the application left open
Return(s) ==
    /\ pc[s] = "return"
    /\ pc' = [pc EXCEPT ![s] = "done"]
    /\ ws' = [ws EXCEPT ![s] = IF @.state = "closed" THEN @ ELSE Closed(1000)]
    /\ UNCHANGED <<batchVars, svcVars>>
    /\ UNCHANGED <<cid, exitPath, curTask, hActive, hTasks, task, mConn,
                   mHeart, mQueue, closes, now,
                   sweepPc, sweepWake, sweepTodo, sweepCur>>

\* ------------------------------------------- WebSocketManager.send_message
\* send_message for a client that has a connection entry: the message is put
\* on the client's queue; wait_for suspends the call
SendMessage(c) ==
    /\ sender.pc = "idle"
    /\ mConn[c] # NoSocket
    /\ mQueue' = [mQueue EXCEPT ![c].msgs = Append(@, "message")]
    /\ sender' = [pc |-> "put", client |-> c, websocket |-> NoSocket]
    /\ UNCHANGED <<batchVars, caller, lookup, tracker, assoc, iou, velo, track, outbox, handler, heard>>
    /\ UNCHANGED <<pc, cid, ws, exitPath, curTask, hActive, hTasks, task,
                   mConn, mHeart, closes, now,
                   sweepPc, sweepWake, sweepTodo, sweepCur>>

\* _process_message_queue: the queue and the socket are looked up again; a
\* client disconnected in the meantime raises KeyError and disconnect finds
\* nothing to do.  Else the first message is taken and send_json awaited.
ProcessMessageQueue ==
    /\ sender.pc = "put"
    /\ LET c == sender.client IN
       IF mConn[c] = NoSocket \/ ~mQueue[c].present
       THEN /\ sender' = NoSend
            /\ UNCHANGED mQueue
       ELSE IF mQueue[c].msgs = <<>>
       THEN /\ sender' = NoSend
            /\ UNCHANGED mQueue
       ELSE /\ mQueue' = [mQueue EXCEPT ![c].msgs = Tail(@)]
            /\ sender' = [sender EXCEPT !.pc = "send", !.websocket = mConn[c]]
    /\ UNCHANGED <<batchVars, caller, lookup, tracker, assoc, iou, velo, track, outbox, handler, heard>>
    /\ UNCHANGED <<pc, cid, ws, exitPath, curTask, hActive, hTasks, task,
                   mConn, mHeart, closes, now,
                   sweepPc, sweepWake, sweepTodo, sweepCur>>

\* send_json returns and the loop finds the queue empty, or it raises on a
\* closed socket and the except clause calls disconnect, up to the await of
\* close()
SendJson ==
    /\ sender.pc = "send"
    /\ LET c == sender.client IN
       IF ws[sender.websocket].state = "open"
       THEN /\ sender' = NoSend
            /\ UNCHANGED ws
       ELSE IF mConn[c] # NoSocket /\ ~CloseRaises(mConn[c])
       THEN /\ ws' = [ws EXCEPT ![mConn[c]] = Closed(1000)]
            /\ sender' = [sender EXCEPT !.pc = "close"]
       ELSE /\ sender' = NoSend
            /\ UNCHANGED ws
    /\ UNCHANGED <<batchVars, caller, lookup, tracker, assoc, iou, velo, track, outbox, handler, heard>>
    /\ UNCHANGED <<pc, cid, exitPath, curTask, hActive, hTasks, task,
                   mConn, mHeart, mQueue, closes, now,
                   sweepPc, sweepWake, sweepTodo, sweepCur>>

\* disconnect after close() returned, called by the failed send
SendDisconnect ==
    /\ sender.pc = "close"
    /\ DeleteEntries(sender.client)
    /\ sender' = NoSend
    /\ UNCHANGED <<batchVars, caller, lookup, tracker, assoc, iou, velo, track, outbox, handler, heard>>
    /\ UNCHANGED <<pc, cid, ws, exitPath, curTask, hActive, hTasks, task,
                   closes, now, sweepPc, sweepWake, sweepTodo, sweepCur>>

\* --------------------------------------------------- _periodic_cleanup
Stale(c) == mHeart[c] # NoBeat /\ now - mHeart[c] > HeartbeatInterval

\* the sleep ends: collect stale_clients
SweepWake ==
    /\ sweepPc = "sleep"
    /\ now >= sweepWake
    /\ sweepTodo' = {c \in Clients : Stale(c)}
    /\ sweepPc' = "scan"
    /\ UNCHANGED <<batchVars, svcVars>>
    /\ UNCHANGED <<pc, cid, ws, exitPath, curTask, hActive, hTasks, task,
                   mConn, mHeart, mQueue, closes, now, sweepWake, sweepCur>>

\* one iteration of the for loop, up to the await in disconnect
SweepDisconnect(c) ==
    /\ sweepPc = "scan"
    /\ c \in sweepTodo
    /\ IF mConn[c] # NoSocket /\ ~CloseRaises(mConn[c])
       THEN /\ ws' = [ws EXCEPT ![mConn[c]] = Closed(1000)]
            /\ sweepPc' = "close"
            /\ sweepCur' = c
            /\ UNCHANGED sweepTodo
       ELSE /\ sweepTodo' = sweepTodo \ {c}
            /\ UNCHANGED <<ws, sweepPc, sweepCur>>
    /\ UNCHANGED <<batchVars, svcVars>>
    /\ UNCHANGED <<pc, cid, exitPath, curTask, hActive, hTasks, task,
                   mConn, mHeart, mQueue, closes, now, sweepWake>>

\* disconnect after close() returned, called by the sweep
SweepDelete ==
    /\ sweepPc = "close"
    /\ DeleteEntries(sweepCur)
    /\ sweepTodo' = sweepTodo \ {sweepCur}
    /\ sweepCur' = NoClient
    /\ sweepPc' = "scan"
    /\ UNCHANGED <<batchVars, svcVars>>
    /\ UNCHANGED <<pc, cid, ws, exitPath, curTask, hActive, hTasks, task,
                   closes, now, sweepWake>>

\* the pass is over: sleep again
SweepSleep ==
    /\ sweepPc = "scan"
    /\ sweepTodo = {}
    /\ sweepPc' = "sleep"
    /\ sweepWake' = now + SweepPeriod
    /\ UNCHANGED <<batchVars, svcVars>>
    /\ UNCHANGED <<pc, cid, ws, exitPath, curTask, hActive, hTasks, task,
                   mConn, mHeart, mQueue, closes, now, sweepTodo, sweepCur>>

\* 30 seconds pass; the sweep's timer is not overrun
Tick ==
    /\ now < MaxTime
    /\ ~(sweepPc = "sleep" /\ now >= sweepWake)
    /\ now' = now + 1
    /\ heard' = {}
    /\ UNCHANGED <<batchVars, caller, lookup, tracker, assoc, iou, velo, sender,
                   track, outbox, handler>>
    /\ UNCHANGED <<pc, cid, ws, exitPath, curTask, hActive, hTasks, task,
                   mConn, mHeart, mQueue, closes,
                   sweepPc, sweepWake, sweepTodo, sweepCur>>

HandlerNext ==
    \/ \E s \in Sessions : PeerClose(s)
    \/ \E s \in Sessions, c \in Clients \cup {NoClient} : HandleConnection(s, c)
    \/ \E s \in Sessions : InitializeConnection(s)
    \/ \E s \in Sessions : Reconnect(s)
    \/ \E s \in Sessions, d \in BOOLEAN : ReceiveFrame(s, d)
    \/ \E s \in Sessions : ReceiveBadMessage(s)
    \/ \E s \in Sessions : ReceiveDisconnect(s)
    \/ \E s \in Sessions : ReceiveTimeout(s)
    \/ \E t \in TaskIds : TaskRun(t)
    \/ \E s \in Sessions : FrameTimeout(s)
    \/ \E s \in Sessions : FrameReturn(s)
    \/ \E s \in Sessions : CleanupClient(s)
    \/ \E s \in Sessions : CleanupDisconnect(s)
    \/ \E s \in Sessions : Return(s)

ManagerNext ==
    \/ \E s \in Sessions, c \in Clients : MgrConnect(s, c)
    \/ SweepWake
    \/ \E c \in Clients : SweepDisconnect(c)
    \/ SweepDelete
    \/ SweepSleep
    \/ Tick

NextSession == HandlerNext \/ ManagerNext

SendNext ==
    \/ \E c \in Clients : SendMessage(c)
    \/ ProcessMessageQueue
    \/ SendJson
    \/ SendDisconnect

\* the ways a session is closed or fails.  The connections the handler
\* serves are of different clients (connection s carries client id s); a
\* connection made through WebSocketManager.connect carries one of the
\* first s client ids; the 30-second clock advances between the runs of the
\* sweep and of send_message, not inside them.
NextClosing ==
    \/ \E s \in Sessions : PeerClose(s)
    \/ \E s \in Sessions \cap Clients : HandleConnection(s, s)
    \/ \E s \in Sessions : InitializeConnection(s)
    \/ \E s \in Sessions : ReceiveFrame(s, TRUE)
    \/ \E s \in Sessions : ReceiveDisconnect(s)
    \/ \E s \in Sessions : ReceiveTimeout(s)
    \/ \E s \in Sessions : CleanupClient(s)
    \/ \E s \in Sessions : CleanupDisconnect(s)
    \/ \E s \in Sessions : Return(s)
    \/ \E s \in Sessions, c \in Clients : c <= s /\ MgrConnect(s, c)
    \/ SweepWake
    \/ \E c \in Clients : SweepDisconnect(c)
    \/ SweepDelete
    \/ SweepSleep
    \/ sender.pc = "idle" /\ sweepPc = "sleep" /\ Tick
    \/ SendNext

\* sessions that are closed by the peer, the read timer, a failed send or
\* the sweep, next to sessions of other clients
SpecClosing == Init /\ [][NextClosing]_vars

\* the message loops of connections of different clients (connection s
\* carries client id s), their frames and the ends of the connections
NextFrames ==
    \/ \E s \in Sessions : PeerClose(s)
    \/ \E s \in Sessions \cap Clients : HandleConnection(s, s)
    \/ \E s \in Sessions : InitializeConnection(s)
    \/ \E s \in Sessions, d \in BOOLEAN : ReceiveFrame(s, d)
    \/ \E t \in TaskIds : TaskRun(t)
    \/ \E s \in Sessions : FrameTimeout(s)
    \/ \E s \in Sessions : FrameReturn(s)
    \/ \E s \in Sessions : ReceiveBadMessage(s)
    \/ \E s \in Sessions : ReceiveDisconnect(s)
    \/ \E s \in Sessions : ReceiveTimeout(s)
    \/ \E s \in Sessions : CleanupClient(s)
    \/ \E s \in Sessions : Return(s)

SpecFrames == Init /\ [][NextFrames]_vars

\* WebSocketManager on its own: connections made through connect, peers
\* that go away, send_message calls and the sweep
NextManager ==
    \/ \E s \in Sessions, c \in Clients : MgrConnect(s, c)
    \/ \E s \in Sessions : PeerClose(s)
    \/ SendNext
    \/ SweepWake
    \/ \E c \in Clients : SweepDisconnect(c)
    \/ SweepDelete
    \/ SweepSleep
    \/ Tick

SpecManager == Init /\ [][NextManager]_vars

\* 30 seconds pass in which every client with a connection in its message
\* loop has sent a message
LiveTick ==
    /\ \A s \in Sessions : pc[s] \in {"receive", "await_task"} => cid[s] \in heard
    /\ Tick

\* clients that keep sending: connections registered with the manager and
\* served by the handler, their messages, and the sweep.  Connection s of the
\* handler carries client id s, a connection made through
\* WebSocketManager.connect one of the first s client ids.
NextHeartbeat ==
    \/ \E s \in Sessions, c \in Clients : c <= s /\ MgrConnect(s, c)
    \/ \E s \in Sessions \cap Clients : HandleConnection(s, s)
    \/ \E s \in Sessions : InitializeConnection(s)
    \/ \E s \in Sessions, d \in BOOLEAN : ReceiveFrame(s, d)
    \/ \E t \in TaskIds : TaskRun(t)
    \/ \E s \in Sessions : FrameReturn(s)
    \/ SweepWake
    \/ \E c \in Clients : SweepDisconnect(c)
    \/ SweepDelete
    \/ SweepSleep
    \/ LiveTick

SpecHeartbeat == Init /\ [][NextHeartbeat]_vars

\* the handler and the manager with its sweep
SpecSession == Init /\ [][NextSession]_vars

\* ------------------------------------------------ ObjectDetectionService
Min(a, b) == IF a < b THEN a ELSE b

\* the detector: one detection list per frame
Detections(f) == IF f = "f0" THEN <<>> ELSE <<f>>

\* a cache that never expires its entries
CacheHasForEver(h) == cache[h].present

\* TTLCache.__contains__: the key has an entry younger than the ttl
CacheHas(h) == cache[h].present /\ clock - cache[h].at < CacheTtl

\* TTLCache.get: the value of such an entry, else the default (falsy, as [])
CacheGet(h) ==
    IF CacheHas(h)
    THEN cache[h].value
    ELSE <<>>

NextCall(i) == sub[i].outcome = "none" /\ \A j \in SubIds : j < i => sub[j].outcome # "none"

\* detect up to its await of the future: a truthy cached result is returned,
\* otherwise (frame, frame_hash, future) is put on the batch queue
Detect(i, f) ==
    /\ NextCall(i)
    /\ IF CacheGet(FrameHash(f)) # <<>>
       THEN /\ sub' = [sub EXCEPT ![i] = [NoSub EXCEPT !.frame = f,
                         !.outcome = "cached", !.value = CacheGet(FrameHash(f))]]
            /\ UNCHANGED bq
       ELSE /\ sub' = [sub EXCEPT ![i] = [NoSub EXCEPT !.frame = f,
                         !.fut = "pending", !.outcome = "waiting"]]
            /\ bq' = Append(bq, i)
    /\ UNCHANGED <<batch, bpc, deadline, cache, clock, batchFirst, batchLast, last>>
    /\ UNCHANGED <<sessVars, svcVars>>

\* wait_for(future, 5.0) returns the result
DetectReturn(i) ==
    /\ sub[i].outcome = "waiting"
    /\ sub[i].fut = "resolved"
    /\ sub' = [sub EXCEPT ![i].outcome = "result", ![i].value = sub[i].result]
    /\ UNCHANGED <<bq, batch, bpc, deadline, cache, clock, batchFirst, batchLast, last>>
    /\ UNCHANGED <<sessVars, svcVars>>

\* wait_for(future, 5.0) times out: it cancels the future, detect returns []
\* and the call is over without a result of the batcher ("dropped")
DetectTimeout(i) ==
    /\ sub[i].outcome = "waiting"
    /\ sub[i].fut = "pending"
    /\ sub' = [sub EXCEPT ![i].outcome = "dropped", ![i].fut = "cancelled"]
    /\ UNCHANGED <<bq, batch, bpc, deadline, cache, clock, batchFirst, batchLast, last>>
    /\ UNCHANGED <<sessVars, svcVars>>

\* the calling task is cancelled while it waits: wait_for cancels the future
DetectCancelled(i) ==
    /\ sub[i].outcome = "waiting"
    /\ sub[i].fut = "pending"
    /\ sub' = [sub EXCEPT ![i].outcome = "dropped", ![i].fut = "cancelled"]
    /\ UNCHANGED <<bq, batch, bpc, deadline, cache, clock, batchFirst, batchLast, last>>
    /\ UNCHANGED <<sessVars, svcVars>>

\* the loop condition off by one: len(batch) <= 4
BatchOpenOffByOne(b) == Len(b) <= MaxBatch

\* while len(batch) < 4
BatchOpen(b) == Len(b) < MaxBatch

\* set_result without the future.done() test
SetResultUnchecked(f, r) == [f EXCEPT !.fut = "resolved", !.result = r]

\* if not future.done(): future.set_result(result)
SetResult(f, r) ==
    IF f.fut = "pending"
    THEN [f EXCEPT !.fut = "resolved", !.result = r]
    ELSE f

\* zip(results, futures, frame_hashes): the positions that are paired
Zipped(b, results) == 1..Min(Len(b), Len(results))

\* every position is handed the first result
ResultAtFirst(results, j) == results[1]

\* the result zip pairs with position j
ResultAt(results, j) == results[j]

\* the for loop over the zip: the futures after it
SetResults(b, results) ==
    [i \in SubIds |->
        IF \E j \in Zipped(b, results) : b[j] = i
        THEN SetResult(sub[i], ResultAt(results,
                 CHOOSE j \in Zipped(b, results) : b[j] = i))
        ELSE sub[i]]

\* the for loop over the zip: the cache after it; a later pair overwrites an
\* earlier one under the same hash
CacheResults(b, results) ==
    [h \in Hashes |->
        LET js == {j \in Zipped(b, results) : FrameHash(sub[b[j]].frame) = h}
        IN IF js = {}
           THEN cache[h]
           ELSE [present |-> TRUE,
                 value |-> ResultAt(results, CHOOSE j \in js : \A k \in js : k <= j),
                 at |-> clock]]

\* _detect_batch that hands back no list at all when the model raises
ModelResultsNoneOnRaise(b, n, raises) ==
    IF raises
    THEN <<>>
    ELSE [j \in 1..n |-> IF j <= Len(b) THEN Detections(sub[b[j]].frame) ELSE <<>>]

\* _detect_batch: what self.model returns for the frames, n lists of them;
\* when the model raises, one empty list per frame
ModelResults(b, n, raises) ==
    IF raises
    THEN [j \in 1..Len(b) |-> <<>>]
    ELSE [j \in 1..n |-> IF j <= Len(b) THEN Detections(sub[b[j]].frame) ELSE <<>>]

\* lengths of the model's result sequence: one list per frame, one too few,
\* one too many, none
ResultCounts(b) == {0, Len(b) - 1, Len(b), Len(b) + 1}

\* the end of an iteration of _process_batch: the batch goes to the detector
\* and the results go to the futures and the cache, with no await in between
Dispatch(b, first, lastArrival) ==
    \E n \in ResultCounts(b), raises \in BOOLEAN :
        LET results == ModelResults(b, n, raises) IN
        /\ sub' = SetResults(b, results)
        /\ cache' = CacheResults(b, results)
        /\ last' = [count |-> 1, batch |-> b,
                    results |-> results, failed |-> raises,
                    first |-> first, last |-> lastArrival, at |-> clock]
        /\ batch' = <<>>
        /\ bpc' = "get"
        /\ deadline' = clock + MaxWait

\* wait_for(self._batch_queue.get(), 0.1) returns an item
BatchGet ==
    /\ bpc = "get"
    /\ bq # <<>>
    /\ bq' = Tail(bq)
    /\ LET b == Append(batch, Head(bq))
           first == IF batch = <<>> THEN clock ELSE batchFirst
       IN IF BatchOpen(b)
          THEN /\ batch' = b
               /\ batchFirst' = first
               /\ batchLast' = clock
               /\ deadline' = clock + MaxWait
               /\ UNCHANGED <<sub, bpc, cache, last>>
          ELSE /\ Dispatch(b, first, clock)
               /\ batchFirst' = 0
               /\ batchLast' = 0
    /\ UNCHANGED clock
    /\ UNCHANGED <<sessVars, svcVars>>

\* wait_for(self._batch_queue.get(), 0.1) times out: break
BatchTimeout ==
    /\ bpc = "get"
    /\ bq = <<>>
    /\ clock >= deadline
    /\ IF batch = <<>>
       THEN /\ bpc' = "sleep"
            /\ UNCHANGED <<sub, batch, deadline, cache, last>>
       ELSE Dispatch(batch, batchFirst, batchLast)
    /\ batchFirst' = 0
    /\ batchLast' = 0
    /\ UNCHANGED <<bq, clock>>
    /\ UNCHANGED <<sessVars, svcVars>>

\* if not batch: await asyncio.sleep(0.01); continue
BatchSleep ==
    /\ bpc = "sleep"
    /\ bpc' = "get"
    /\ deadline' = clock + MaxWait
    /\ UNCHANGED <<sub, bq, batch, cache, clock, batchFirst, batchLast, last>>
    /\ UNCHANGED <<sessVars, svcVars>>

\* 50 ms pass; no timer of the batcher is overrun, no item it can take at
\* once is left waiting, and no caller whose future is resolved is still
\* suspended (set_result has scheduled its wakeup)
BatchTick ==
    /\ clock < MaxClock
    /\ bpc = "get"
    /\ bq = <<>>
    /\ clock < deadline
    /\ \A i \in SubIds : ~(sub[i].outcome = "waiting" /\ sub[i].fut = "resolved")
    /\ clock' = clock + 1
    /\ UNCHANGED <<sub, bq, batch, bpc, deadline, cache, batchFirst, batchLast, last>>
    /\ UNCHANGED <<sessVars, svcVars>>

NextBatch ==
    \/ \E i \in SubIds, f \in Frames : Detect(i, f)
    \/ \E i \in SubIds : DetectReturn(i)
    \/ \E i \in SubIds : DetectTimeout(i)
    \/ \E i \in SubIds : DetectCancelled(i)
    \/ BatchGet
    \/ BatchTimeout
    \/ BatchSleep
    \/ BatchTick

\* the batcher and callers whose frames all miss the cache: frames in which
\* nothing is detected, whose stored result is not served
NextQueue ==
    \/ \E i \in SubIds : Detect(i, "f0")
    \/ \E i \in SubIds : DetectReturn(i)
    \/ \E i \in SubIds : DetectTimeout(i)
    \/ BatchGet
    \/ BatchTimeout
    \/ BatchSleep
    \/ BatchTick

SpecQueue == Init /\ [][NextQueue]_vars

\* the batcher and its callers
SpecBatch == Init /\ [][NextBatch]_vars


\* ------------------------------------- detect() against the bounded queue
\* Time is counted in seconds here; the queue is its number of items and
\* caller.ahead the number of items in front of the caller's own.

\* another caller's detect(): its put finds room
OtherPut ==
    /\ caller.qsize < MaxQueueSize
    /\ caller' = [caller EXCEPT !.qsize = @ + 1]
    /\ UNCHANGED <<sessVars, batchVars, lookup, tracker, assoc, iou, velo, sender, track, outbox, handler, heard>>

\* the put of (frame, frame_hash, future) goes through
Enqueue(c) ==
    [c EXCEPT !.pc = "wait", !.fut = "pending", !.ahead = c.qsize,
              !.qsize = c.qsize + 1, !.waited = 0]

\* detect on a cache miss, up to its first await that suspends: the put
\* returns at once when the queue has room and blocks when it is full;
\* wait_for(future, 5.0) starts only after the put
CallDetect ==
    /\ caller.pc = "idle"
    /\ caller' = IF caller.qsize < MaxQueueSize
                 THEN Enqueue(caller)
                 ELSE [caller EXCEPT !.pc = "put"]
    /\ UNCHANGED <<sessVars, batchVars, lookup, tracker, assoc, iou, velo, sender, track, outbox, handler, heard>>

\* the blocked put is woken because the queue has room
PutResume ==
    /\ caller.pc = "put"
    /\ caller.qsize < MaxQueueSize
    /\ caller' = Enqueue(caller)
    /\ UNCHANGED <<sessVars, batchVars, lookup, tracker, assoc, iou, velo, sender, track, outbox, handler, heard>>

\* _process_batch takes the head of the queue; the caller's own item, once
\* taken, is dispatched and its future resolved unless it is done already
BatcherTake ==
    /\ caller.task = "running"
    /\ caller.qsize > 0
    /\ caller' = [caller EXCEPT
                    !.qsize = @ - 1,
                    !.ahead = IF @ >= 0 THEN @ - 1 ELSE @,
                    !.fut = IF caller.ahead = 0 /\ @ = "pending"
                            THEN "resolved" ELSE @]
    /\ UNCHANGED <<sessVars, batchVars, lookup, tracker, assoc, iou, velo, sender, track, outbox, handler, heard>>

\* cleanup(): self._processing_task.cancel()
BatcherCancel ==
    /\ caller.task = "running"
    /\ caller' = [caller EXCEPT !.task = "cancelled"]
    /\ UNCHANGED <<sessVars, batchVars, lookup, tracker, assoc, iou, velo, sender, track, outbox, handler, heard>>

\* wait_for(future, 5.0) returns the result
WaitReturn ==
    /\ caller.pc = "wait"
    /\ caller.fut = "resolved"
    /\ caller' = [caller EXCEPT !.pc = "done", !.outcome = "result"]
    /\ UNCHANGED <<sessVars, batchVars, lookup, tracker, assoc, iou, velo, sender, track, outbox, handler, heard>>

\* wait_for(future, 5.0) times out: the future is cancelled, detect returns []
WaitTimeout ==
    /\ caller.pc = "wait"
    /\ caller.fut = "pending"
    /\ caller.waited >= DetectCeiling
    /\ caller' = [caller EXCEPT !.pc = "done", !.fut = "cancelled",
                                !.outcome = "timeout"]
    /\ UNCHANGED <<sessVars, batchVars, lookup, tracker, assoc, iou, velo, sender, track, outbox, handler, heard>>

\* a second passes for a caller inside detect(); its timer is not overrun
\* and a caller whose future is resolved does not stay suspended
SecondTick ==
    /\ caller.pc \in {"put", "wait"}
    /\ caller.elapsed < MaxElapsed
    /\ caller.pc = "wait" => (caller.fut = "pending" /\ caller.waited < DetectCeiling)
    /\ caller' = [caller EXCEPT !.elapsed = @ + 1,
                                !.waited = IF caller.pc = "wait" THEN @ + 1 ELSE @]
    /\ UNCHANGED <<sessVars, batchVars, lookup, tracker, assoc, iou, velo, sender, track, outbox, handler, heard>>

NextCeiling ==
    \/ OtherPut
    \/ CallDetect
    \/ PutResume
    \/ BatcherTake
    \/ BatcherCancel
    \/ WaitReturn
    \/ WaitTimeout
    \/ SecondTick

\* one detect() call, the other callers and the batcher's task
SpecCeiling == Init /\ [][NextCeiling]_vars


\* ------------------------------------------------- the result cache alone
\* The two places that touch result_cache, and time passing up to the ttl
\* and beyond.  lookup.since and lookup.expect remember the insertion
\* independently of the cache's own bookkeeping.

\* self.result_cache[frame_hash] = result
StoreResult(f, r) ==
    /\ cache' = [cache EXCEPT ![FrameHash(f)] =
                    [present |-> TRUE, value |-> r, at |-> clock]]
    /\ lookup' = [NoLookup EXCEPT !.stored = TRUE, !.since = clock, !.expect = r]
    /\ UNCHANGED <<sub, bq, batch, bpc, deadline, clock, batchFirst, batchLast, last>>
    /\ UNCHANGED <<sessVars, caller, tracker, assoc, iou, velo, sender, track, outbox, handler, heard>>

\* self.result_cache.get(frame_hash): the cache is left as it is
LookupResult(f) ==
    /\ lookup' = [lookup EXCEPT
                    !.count = 1,
                    !.hit = CacheHas(FrameHash(f)),
                    !.value = CacheGet(FrameHash(f)),
                    !.time = clock,
                    !.reads = IF CacheHas(FrameHash(f)) /\ @ < 2 THEN @ + 1 ELSE @]
    /\ UNCHANGED batchVars
    /\ UNCHANGED <<sessVars, caller, tracker, assoc, iou, velo, sender, track, outbox, handler, heard>>

\* 50 ms pass
CacheTick ==
    /\ clock < MaxCacheClock
    /\ clock' = clock + 1
    /\ UNCHANGED <<sub, bq, batch, bpc, deadline, cache, batchFirst, batchLast, last>>
    /\ UNCHANGED <<sessVars, svcVars>>

NextCache ==
    \/ \E f \in Frames, g \in Frames : StoreResult(f, Detections(g))
    \/ \E f \in Frames : LookupResult(f)
    \/ CacheTick

\* the result cache, its writer and its reader
SpecCache == Init /\ [][NextCache]_vars


\* -------------------------------------------------------- TrackingService
\* A detection is named by the object it shows.
Objects == {"a", "b"}

\* the detection lists update is called with: no object twice
DetLists ==
    {<<>>} \cup {<<o>> : o \in Objects}
           \cup {d \in Objects \X Objects : d[1] # d[2]}

\* update on an empty list: if not detections: return []
\* update on a non-empty list: the lock is taken and self._predict_tracks()
\* is called, a method TrackingService does not define; the AttributeError
\* is caught by the except clause of update, which returns [].  The lock is
\* released by async with; tracked_objects is as before.
Update(trk, dets) ==
    IF dets = <<>>
    THEN [trk EXCEPT !.log = Append(@, [dets |-> dets, reached |-> "skipped",
                                         returned |-> <<>>])]
    ELSE [trk EXCEPT !.log = Append(@, [dets |-> dets, reached |-> "raised",
                                         returned |-> <<>>])]

\* one call of TrackingService.update, made for a frame of client c on the
\* one TrackingService object of the process (tracker = TrackingService());
\* update takes no session argument.  Nothing in the call suspends.
TrackerUpdate(c, dets) ==
    /\ Len(tracker.log) < MaxUpdates
    /\ ~tracker.locked
    /\ tracker' = [Update(tracker, dets) EXCEPT !.callers = Append(@, c)]
    /\ UNCHANGED <<sessVars, batchVars, caller, lookup, assoc, iou, velo, sender, track, outbox, handler, heard>>

NextTracker == \E c \in Clients, dets \in DetLists : TrackerUpdate(c, dets)

\* the tracker and the frames' detection lists it is fed
SpecTracker == Init /\ [][NextTracker]_vars


\* ---------------------------------- TrackingService._associate_detections
\* A bounding box is <<x1, y1, x2, y2>>.  Track i is the i-th key of
\* predictions, detection j the j-th element of detections.
Boxes == {<<x, 0, x + 2, 1>> : x \in 0..MaxX}

BoxLists == UNION {[1..n -> Boxes] : n \in 0..MaxBoxes}

Max(a, b) == IF a > b THEN a ELSE b

\* intersection without the max(0, .)
IntersectionUnclamped(b1, b2) ==
    (Min(b1[3], b2[3]) - Max(b1[1], b2[1]))
        * (Min(b1[4], b2[4]) - Max(b1[2], b2[2]))

\* _calculate_iou: intersection and union of two boxes
Intersection(b1, b2) ==
    Max(0, Min(b1[3], b2[3]) - Max(b1[1], b2[1]))
        * Max(0, Min(b1[4], b2[4]) - Max(b1[2], b2[2]))

Area(b) == (b[3] - b[1]) * (b[4] - b[2])

Union(b1, b2) == Area(b1) + Area(b2) - Intersection(b1, b2)

\* _calculate_iou: intersection / max(union, 1e-6) as a fraction num / den
CalculateIou(b1, b2) ==
    [num |-> Intersection(b1, b2) * InvEpsilon,
     den |-> Max(Union(b1, b2) * InvEpsilon, 1)]

RECURSIVE Gcd(_, _)
Gcd(a, b) == IF b = 0 THEN a ELSE Gcd(b, a % b)

RECURSIVE LcmOf(_)
LcmOf(S) ==
    IF S = {} THEN 1
    ELSE LET u == CHOOSE v \in S : TRUE
             l == LcmOf(S \ {u})
         IN (l * u) \div Gcd(l, u)

\* cost_matrix[i, j] = 1 - iou(prediction i, detection j), kept exact: every
\* entry is the numerator of the cost over the common denominator scale
ScaledCosts(preds, dets, scale) ==
    [rows |-> Len(preds), cols |-> Len(dets), scale |-> scale,
     at |-> [ij \in (1..Len(preds)) \X (1..Len(dets)) |->
               IF Union(preds[ij[1]], dets[ij[2]]) = 0
               THEN scale
               ELSE (Union(preds[ij[1]], dets[ij[2]])
                        - Intersection(preds[ij[1]], dets[ij[2]]))
                    * (scale \div Union(preds[ij[1]], dets[ij[2]]))]]

CostMatrix(preds, dets) ==
    ScaledCosts(preds, dets,
                LcmOf({Max(Union(preds[i], dets[j]), 1) :
                          i \in 1..Len(preds), j \in 1..Len(dets)}))

OneToOne(P) ==
    \A a \in P, b \in P : (a[1] = b[1] \/ a[2] = b[2]) => a = b

\* the one-to-one pairings of k (row, column) pairs
Pairings(rows, cols, k) ==
    UNION {{{<<i, f[i]>> : i \in R} :
               f \in {g \in [R -> 1..cols] : \A i \in R, j \in R : g[i] = g[j] => i = j}} :
           R \in {S \in SUBSET (1..rows) : Cardinality(S) = k}}

RECURSIVE SumOver(_, _)
SumOver(c, P) ==
    IF P = {} THEN 0
    ELSE LET a == CHOOSE v \in P : TRUE IN c.at[a] + SumOver(c, P \ {a})

TotalCost(c, P) == SumOver(c, P)

\* row by row, each row takes the cheapest column that is still free
RECURSIVE GreedyFrom(_, _, _)
GreedyFrom(c, i, P) ==
    LET free == {j \in 1..c.cols : \A a \in P : a[2] # j} IN
    IF i > c.rows \/ free = {} THEN P
    ELSE LET j == CHOOSE v \in free :
                    \A w \in free : c.at[<<i, v>>] < c.at[<<i, w>>]
                                    \/ (c.at[<<i, v>>] = c.at[<<i, w>>] /\ v <= w)
         IN GreedyFrom(c, i + 1, P \cup {<<i, j>>})

LinearSumAssignmentGreedy(c) == {GreedyFrom(c, 1, {})}

\* scipy.optimize.linear_sum_assignment(cost_matrix): the assignments of
\* min(rows, cols) pairs of least total cost; which one of several it
\* returns is left open
LinearSumAssignment(c) ==
    LET all == Pairings(c.rows, c.cols, Min(c.rows, c.cols))
        totals == {TotalCost(c, P) : P \in all}
        least == CHOOSE t \in totals : \A u \in totals : t <= u
    IN {P \in all : TotalCost(c, P) = least}

\* a gate every pair passes
GatedAtOne(c, a) == c.at[a] <= c.scale
\* cost_matrix[track_idx, det_idx] <= 1 - self.iou_threshold
Gated(c, a) == 10 * c.at[a] <= (10 - IouThresholdTenths) * c.scale

\* _associate_detections(detections, predictions) from its arguments to its
\* return value; cost_matrix and assigned keep the locals
\* cost_matrix and (track_indices, detection_indices)
AssociateDetections(preds, dets) ==
    /\ IF dets = <<>> \/ preds = <<>>
       THEN assoc' = [NoAssoc EXCEPT
                        !.called = TRUE,
                        !.predictions = preds, !.detections = dets,
                        !.unmatched_detections = 1..Len(dets),
                        !.unmatched_tracks = 1..Len(preds)]
       ELSE \E c \in {CostMatrix(preds, dets)} :
            \E P \in LinearSumAssignment(c) :
              LET M == {a \in P : Gated(c, a)}
              IN assoc' = [called |-> TRUE, predictions |-> preds,
                           detections |-> dets, cost_matrix |-> c,
                           assigned |-> P, matches |-> M,
                           unmatched_detections |->
                               {j \in 1..Len(dets) : \A a \in M : a[2] # j},
                           unmatched_tracks |->
                               {i \in 1..Len(preds) : \A a \in M : a[1] # i}]
    /\ UNCHANGED <<sessVars, batchVars, caller, lookup, tracker, iou, velo, sender, track, outbox, handler, heard>>

\* one call, on any pair of lists
NextAssociate ==
    /\ ~assoc.called
    /\ \E preds \in BoxLists, dets \in BoxLists : AssociateDetections(preds, dets)

\* the association step on its own, over small lists of boxes
SpecAssociate == Init /\ [][NextAssociate]_vars


\* ------------------------------------------ TrackingService._calculate_iou
\* well-formed boxes with corners on a grid of step 5
Coords == {5 * k : k \in 0..MaxCoord}

GridBoxes ==
    {b \in Coords \X Coords \X Coords \X Coords : b[1] <= b[3] /\ b[2] <= b[4]}

\* _calculate_iou(bbox1, bbox2) and _calculate_iou(bbox2, bbox1)
CalculateIouCall(b1, b2) ==
    /\ iou' = [called |-> TRUE, bbox1 |-> b1, bbox2 |-> b2,
               there |-> CalculateIou(b1, b2), back |-> CalculateIou(b2, b1)]
    /\ UNCHANGED <<sessVars, batchVars, caller, lookup, tracker, assoc, velo, sender, track, outbox, handler, heard>>

\* one pair of calls, on any two boxes
NextIou ==
    /\ ~iou.called
    /\ \E b1 \in GridBoxes, b2 \in GridBoxes : CalculateIouCall(b1, b2)

\* _calculate_iou on its own
SpecIou == Init /\ [][NextIou]_vars

\* ------------------------------------- TrackingService._calculate_velocity
\* A history point is a position and the time it was seen at.
Points ==
    [position : (0..MaxPos) \X (0..MaxPos), timestamp : 0..MaxStamp]

Histories == UNION {[1..n -> Points] : n \in 0..MaxHistory}

\* the quotient taken whatever time_diff is
CalculateVelocityUnguarded(history) ==
    IF Len(history) < 2 THEN ZeroVelocity
    ELSE LET last_pos == history[Len(history)].position
             prev_pos == history[Len(history) - 1].position
             time_diff == history[Len(history)].timestamp
                              - history[Len(history) - 1].timestamp
         IN <<[num |-> last_pos[1] - prev_pos[1], den |-> time_diff],
              [num |-> last_pos[2] - prev_pos[2], den |-> time_diff]>>

\* _calculate_velocity on the history of one track
CalculateVelocity(history) ==
    IF Len(history) < 2 THEN ZeroVelocity
    ELSE LET last_pos == history[Len(history)].position
             prev_pos == history[Len(history) - 1].position
             time_diff == history[Len(history)].timestamp
                              - history[Len(history) - 1].timestamp
         IN IF time_diff > 0
            THEN <<[num |-> last_pos[1] - prev_pos[1], den |-> time_diff],
                   [num |-> last_pos[2] - prev_pos[2], den |-> time_diff]>>
            ELSE ZeroVelocity

\* one call of _calculate_velocity
CalculateVelocityCall(history) ==
    /\ velo' = [called |-> TRUE, history |-> history,
                velocity |-> CalculateVelocity(history)]
    /\ UNCHANGED <<sessVars, batchVars, caller, lookup, tracker, assoc, iou,
                   sender, track, outbox, handler, heard>>

NextVelocity ==
    /\ ~velo.called
    /\ \E history \in Histories : CalculateVelocityCall(history)

\* the velocity of a track as a function of its history
SpecVelocity == Init /\ [][NextVelocity]_vars

\* ------------------------------------------ TrackingService._update_track
\* _update_track(track_id, detection, current_time) on the track trk.
\* No code adds to kalman_filters, so the else branch calls
\* self._initialize_kalman_filter, which TrackingService does not define:
\* AttributeError, caught by the except clause, which logs and returns.
\* (With a filter, self._get_bbox_center, missing as well, raises next.)
\* Neither the history nor the entry of tracked_objects is reached.
UpdateTrack(trk, bbox, current_time) ==
    IF trk.kalman_filter
    THEN [trk EXCEPT !.raised = "_get_bbox_center"]
    ELSE [trk EXCEPT !.raised = "_initialize_kalman_filter"]

\* the tracks _update_track is called on: a history of at most one point
Tracks ==
    [consecutive_misses : 0..MaxMisses, last_seen : 0..MaxStamp,
     history : UNION {[1..n -> Points] : n \in 0..1},
     kalman_filter : {FALSE}, raised : {"none"}]

\* one call of _update_track
UpdateTrackCall(trk, bbox, current_time) ==
    /\ track' = [called |-> TRUE, before |-> trk, bbox |-> bbox,
                 current_time |-> current_time,
                 after |-> UpdateTrack(trk, bbox, current_time)]
    /\ UNCHANGED <<sessVars, batchVars, caller, lookup, tracker, assoc, iou,
                   velo, sender, outbox, handler, heard>>

NextUpdateTrack ==
    /\ ~track.called
    /\ \E trk \in Tracks, bbox \in Boxes :
        \E current_time \in (trk.last_seen)..MaxStamp :
            UpdateTrackCall(trk, bbox, current_time)

\* the update of one matched track
SpecUpdateTrack == Init /\ [][NextUpdateTrack]_vars

\* -------------------------- WebSocketManager.send_message, concurrent calls
OutboxUnchanged ==
    UNCHANGED <<sessVars, batchVars, caller, lookup, tracker, assoc, iou,
                velo, sender, track, handler, heard>>

QueueSize == Len(outbox.queue) + outbox.backlog

\* a queue that takes one message more than its maxsize
QueueFullLate(n) == n > OutboundQueueSize

\* asyncio.Queue.full
QueueFull(n) == n >= OutboundQueueSize

\* a get that leaves the message on the queue
QueueGetKeeps(q) == [message |-> Head(q), rest |-> q]

\* asyncio.Queue.get on a queue that is not empty
QueueGet(q) == [message |-> Head(q), rest |-> Tail(q)]

\* connect: the socket is accepted and the client's queue created
OutboxConnect ==
    /\ outbox.socket = "none"
    /\ outbox' = [outbox EXCEPT !.connected = TRUE, !.socket = "open"]
    /\ OutboxUnchanged

\* the client goes away
OutboxPeerClose ==
    /\ outbox.socket = "open"
    /\ outbox' = [outbox EXCEPT !.socket = "closed"]
    /\ OutboxUnchanged

\* send_message up to wait_for: a client id without a connection entry
\* returns at once
SendStart(k) ==
    /\ outbox.call[k].pc = "idle"
    /\ IF outbox.connected
       THEN outbox' = [outbox EXCEPT !.call[k].pc = "putting"]
       ELSE outbox' = [outbox EXCEPT !.call[k].pc = "done",
                                     !.call[k].outcome = "not_connected"]
    /\ OutboxUnchanged

Put(k) ==
    [outbox EXCEPT !.queue = Append(@, k), !.enq = Append(@, k),
                   !.call[k].pc = "put"]

\* queue.put(message) runs: the message is on the queue, or the queue is
\* full and the put waits for a free slot
QueuePut(k) ==
    /\ outbox.call[k].pc = "putting"
    /\ IF QueueFull(QueueSize)
       THEN outbox' = [outbox EXCEPT !.call[k].pc = "blocked"]
       ELSE outbox' = Put(k)
    /\ OutboxUnchanged

\* a slot is free: the waiting put goes through
QueuePutWakes(k) ==
    /\ outbox.call[k].pc = "blocked"
    /\ ~QueueFull(QueueSize)
    /\ outbox' = Put(k)
    /\ OutboxUnchanged

\* wait_for times out: the put is cancelled, the warning is logged and
\* send_message returns
QueuePutTimeout(k) ==
    /\ outbox.call[k].pc = "blocked"
    /\ outbox.call[k].waited >= PutTimeoutUnits
    /\ outbox' = [outbox EXCEPT !.call[k].pc = "done",
                                !.call[k].outcome = "dropped"]
    /\ OutboxUnchanged

\* one second passes for the puts that wait; no timer is overrun
OutboxTick ==
    /\ \E k \in Senders : outbox.call[k].pc = "blocked"
    /\ \A k \in Senders :
        outbox.call[k].pc = "blocked" => outbox.call[k].waited < PutTimeoutUnits
    /\ outbox' = [outbox EXCEPT !.call =
                    [k \in Senders |->
                        IF outbox.call[k].pc = "blocked"
                        THEN [outbox.call[k] EXCEPT !.waited = @ + 1]
                        ELSE outbox.call[k]]]
    /\ OutboxUnchanged

\* the loop of _process_message_queue, entered after the put or after a
\* send_json that returned: on an empty queue the call is over; else the
\* next message is taken and handed to the socket by send_json, which
\* raises on a closed socket (the disconnect that follows cannot close the
\* socket again and deletes nothing)
ProcessQueue(k) ==
    /\ outbox.call[k].pc \in {"put", "sending"}
    /\ IF QueueSize = 0
       THEN outbox' = [outbox EXCEPT !.call[k].pc = "done",
                                     !.call[k].outcome = "sent"]
       ELSE IF outbox.backlog > 0
       THEN IF outbox.socket = "open"
            THEN outbox' = [outbox EXCEPT !.backlog = @ - 1,
                                          !.call[k].pc = "sending"]
            ELSE outbox' = [outbox EXCEPT !.backlog = @ - 1,
                                          !.call[k].pc = "done",
                                          !.call[k].outcome = "failed"]
       ELSE LET g == QueueGet(outbox.queue) IN
            IF outbox.socket = "open"
            THEN outbox' = [outbox EXCEPT !.queue = g.rest,
                                          !.sent = Append(@, g.message),
                                          !.call[k].pc = "sending"]
            ELSE outbox' = [outbox EXCEPT !.queue = g.rest,
                                          !.call[k].pc = "done",
                                          !.call[k].outcome = "failed"]
    /\ OutboxUnchanged

\* a send_message call that is not followed puts its message
OtherSend ==
    /\ outbox.connected
    /\ ~QueueFull(QueueSize)
    /\ outbox' = [outbox EXCEPT !.backlog = @ + 1]
    /\ OutboxUnchanged

\* the calls that are followed, interleaved at their awaits
NextOutbox ==
    \/ OutboxConnect
    \/ OutboxPeerClose
    \/ \E k \in Senders : SendStart(k)
    \/ \E k \in Senders : QueuePut(k)
    \/ \E k \in Senders : ProcessQueue(k)

SpecOutbox == Init /\ [][NextOutbox]_vars

\* the same calls behind the messages of other calls, up to a full queue
NextCapacity ==
    \/ NextOutbox
    \/ OtherSend
    \/ \E k \in Senders : QueuePutWakes(k)
    \/ \E k \in Senders : QueuePutTimeout(k)
    \/ OutboxTick

SpecCapacity == Init /\ [][NextCapacity]_vars
\* ------------------------------- handle_connection, attempts of one client
\* The connection attempts made with one client id, as many as the refusal
\* of a duplicate needs: handle_connection from its entry to its return for
\* each of them, over the one entry of _active_connections and of
\* _processing_tasks the id has.
HandlerUnchanged ==
    UNCHANGED <<sessVars, batchVars, caller, lookup, tracker, assoc, iou,
                velo, sender, track, outbox, heard>>

\* attempts arrive in their order, and none while the accept() of an earlier
\* one is under way
AttemptArrives(a) ==
    /\ handler.call[a].pc = "idle"
    /\ \A b \in Attempts : b < a => handler.call[b].pc \notin {"idle", "accept"}

\* conn_info["reconnect_attempts"] >= self._max_reconnect_attempts
TooManyAttempts(n) == n >= MaxReconnectAttempts

\* the dictionary stored by _initialize_connection
Registered(a) ==
    [present |-> TRUE, websocket |-> a, reconnect_attempts |-> 0]

\* handle_connection up to its first await: a new id goes on to accept; a
\* duplicate is refused (close 4001, return, finally) or counted and put to
\* sleep
HandleAttempt(a) ==
    /\ AttemptArrives(a)
    /\ IF ~handler.active_connections.present
       THEN handler' = [handler EXCEPT !.call[a].pc = "accept"]
       ELSE IF TooManyAttempts(handler.active_connections.reconnect_attempts)
       THEN handler' = [handler EXCEPT !.call[a].pc = "cleanup",
                                       !.call[a].exit = "refused"]
       ELSE handler' = [handler EXCEPT
                           !.active_connections.reconnect_attempts = @ + 1,
                           !.call[a].pc = "sleep"]
    /\ HandlerUnchanged

\* _initialize_connection of a new id: accept() raises when the peer is gone
\* (caught by handle_connection, finally), else the entry is stored
AttemptAccept(a, open) ==
    /\ handler.call[a].pc = "accept"
    /\ IF open
       THEN handler' = [handler EXCEPT !.active_connections = Registered(a),
                                       !.call[a].pc = "receive",
                                       !.call[a].exit = "accepted"]
       ELSE handler' = [handler EXCEPT !.call[a].pc = "cleanup",
                                       !.call[a].exit = "error"]
    /\ HandlerUnchanged

\* _handle_reconnection after asyncio.sleep(self._reconnect_delay):
\* _initialize_connection stores a new entry, then handle_connection returns
\* (finally)
AttemptReconnect(a, open) ==
    /\ handler.call[a].pc = "sleep"
    /\ IF open
       THEN handler' = [handler EXCEPT !.active_connections = Registered(a),
                                       !.call[a].pc = "cleanup",
                                       !.call[a].slept = TRUE,
                                       !.call[a].exit = "replaced"]
       ELSE handler' = [handler EXCEPT !.call[a].pc = "cleanup",
                                       !.call[a].slept = TRUE,
                                       !.call[a].exit = "error"]
    /\ HandlerUnchanged

\* _process_frame up to wait_for(task, 5.0): the task is created and stored
\* under the client id
AttemptFrame(a) ==
    /\ handler.call[a].pc = "receive"
    /\ handler' = [handler EXCEPT !.processing_tasks = a,
                                  !.call[a].pc = "frame",
                                  !.call[a].task = "pending"]
    /\ HandlerUnchanged

\* the task ends by itself (_process_frame_data raises at its first use of
\* self.object_detector)
AttemptTaskEnds(a) ==
    /\ handler.call[a].task = "pending"
    /\ handler' = [handler EXCEPT !.call[a].task = "failed"]
    /\ HandlerUnchanged

\* wait_for(task, 5.0) is over: the task's exception is logged, or the 5 s
\* passed and the task is cancelled, and the loop receives again; a task
\* cancelled by somebody else raises CancelledError through handle_connection
\* (finally)
AttemptFrameReturn(a) ==
    /\ handler.call[a].pc = "frame"
    /\ handler' =
         IF handler.call[a].task = "cancelled"
         THEN [handler EXCEPT !.call[a].pc = "cleanup",
                              !.call[a].exit = "cancelled"]
         ELSE IF handler.call[a].task = "pending"
         THEN [handler EXCEPT !.call[a].pc = "receive",
                              !.call[a].task = "timed_out"]
         ELSE [handler EXCEPT !.call[a].pc = "receive"]
    /\ HandlerUnchanged

\* the receive loop breaks: timeout, WebSocketDisconnect or another exception
AttemptBreak(a) ==
    /\ handler.call[a].pc = "receive"
    /\ handler' = [handler EXCEPT !.call[a].pc = "cleanup",
                                  !.call[a].exit = "left"]
    /\ HandlerUnchanged

\* WebSocketManager.connect for the client id: its entries in the three tables
ManagerConnect ==
    /\ ~handler.manager
    /\ handler' = [handler EXCEPT !.manager = TRUE]
    /\ HandlerUnchanged

\* _cleanup_client(client_id) in the finally of handle_connection, then the
\* return: the task stored under the id is cancelled and its entry deleted,
\* and the manager disconnects the id
AttemptCleanup(a) ==
    /\ handler.call[a].pc = "cleanup"
    /\ LET t == handler.processing_tasks
           cancelled == IF t # 0 /\ handler.call[t].task = "pending"
                        THEN [handler.call EXCEPT ![t].task = "cancelled"]
                        ELSE handler.call
       IN handler' = [handler EXCEPT
                         !.processing_tasks = 0,
                         !.manager = FALSE,
                         !.call = [cancelled EXCEPT ![a].pc = "done"]]
    /\ HandlerUnchanged

NextAttempts ==
    \/ \E a \in Attempts : HandleAttempt(a)
    \/ \E a \in Attempts, open \in BOOLEAN : AttemptAccept(a, open)
    \/ \E a \in Attempts, open \in BOOLEAN : AttemptReconnect(a, open)
    \/ \E a \in Attempts : AttemptFrame(a)
    \/ \E a \in Attempts : AttemptTaskEnds(a)
    \/ \E a \in Attempts : AttemptFrameReturn(a)
    \/ \E a \in Attempts : AttemptBreak(a)
    \/ \E a \in Attempts : AttemptCleanup(a)
    \/ ManagerConnect

SpecAttempts == Init /\ [][NextAttempts]_vars


Next ==
    NextSession \/ SendNext \/ NextBatch \/ NextCeiling \/ NextCache
        \/ NextTracker \/ NextAssociate \/ NextIou \/ NextVelocity
        \/ NextUpdateTrack \/ NextCapacity \/ NextAttempts

Spec == Init /\ [][Next]_vars

\* ================================================================ claims
\* per-client state left in the handler's and the manager's tables
Residue(c) ==
    \/ hActive[c].present
    \/ hTasks[c] # NoTask
    \/ mConn[c] # NoSocket
    \/ mHeart[c] # NoBeat
    \/ mQueue[c].present

OpenSessions(c) ==
    {s \in Sessions : cid[s] = c /\ ws[s].state = "open"
                      /\ pc[s] \notin {"idle", "done", "managed"}}

LoopingSessions(c) ==
    {s \in Sessions : cid[s] = c /\ pc[s] \in {"receive", "await_task"}}

\* C1: a client id never has two open connections of the handler, nor two
\* running message loops.
C1_OneLiveSessionPerClient ==
    \A c \in Clients :
        /\ Cardinality(OpenSessions(c)) <= 1
        /\ Cardinality(LoopingSessions(c)) <= 1

\* C2: once a connection handler that registered its client has ended, by
\* disconnect, timeout, error or cancellation, no table holds an entry for
\* its client id.
C2_NoStateOutlivesSession ==
    \A s \in Sessions :
        (pc[s] = "done"
         /\ exitPath[s] \in {"disconnect", "timeout", "error", "cancelled"})
        => ~Residue(cid[s])

\* C3: when _cleanup_client completes for a client id for which it has
\* completed before, no per-client entry of that id lingers.
C3_RepeatedCloseLeavesNothing ==
    [][\A c \in Clients :
        (closes[c] >= 1 /\ closes'[c] > closes[c]) => ~(Residue(c))']_vars

\* C4: the manager never releases a client's connection, heartbeat and queue
\* entries while the client's processing task is still pending.
C4_CancelBeforeRelease ==
    [][\A c \in Clients :
        (mConn[c] # NoSocket /\ mConn'[c] = NoSocket)
        => (hTasks[c] = NoTask \/ task[hTasks[c]] # "pending")]_vars

\* the sweep's disconnect(c) for a stale client c returns in this step
SweepFinishes(c) ==
    \/ sweepPc = "scan" /\ c \in sweepTodo /\ c \notin sweepTodo'
    \/ sweepPc = "close" /\ sweepCur = c /\ sweepPc' = "scan"

\* C6: when the sweep has force-closed a stale client, none of the client's
\* connection, heartbeat and queue entries remain.
C6_SweepRemovesStale ==
    [][\A c \in Clients :
        SweepFinishes(c)
        => (mConn'[c] = NoSocket /\ mHeart'[c] = NoBeat /\ ~mQueue'[c].present)]_vars

\* C7: a session whose read timer fired ends with its connection closed with
\* the timeout code 4002.
C7_TimeoutClosesWith4002 ==
    \A s \in Sessions :
        (exitPath[s] = "timeout" /\ pc[s] = "done") => ws[s] = Closed(4002)

\* C5: a future that is cancelled or resolved is never changed again, and a
\* caller whose detect() ended without a result never gets one later.
C5_NoDeliveryToDoneFuture ==
    [][\A i \in SubIds :
        /\ sub[i].fut \in {"cancelled", "resolved"}
           => (sub'[i].fut = sub[i].fut /\ sub'[i].result = sub[i].result)
        /\ sub[i].outcome = "dropped"
           => (sub'[i].outcome = "dropped" /\ sub'[i].value = <<>>)]_vars

\* a batch went to the detector with a future in it that its caller had
\* cancelled, and the zip paired that future with a result
C5_Witness ==
    /\ last.count > 0
    /\ \E j \in Zipped(last.batch, last.results) :
        /\ sub[last.batch[j]].fut = "cancelled"
        /\ last.results[j] # <<>>

\* C8: a batch of fewer than MaxBatch items goes to the detector no later
\* than MaxWait after its first item arrived.
C8_DispatchWithinMaxWait ==
    (last.count > 0 /\ Len(last.batch) < MaxBatch)
    => last.at - last.first <= MaxWait

\* C9: a batch sent to the detector holds between 1 and MaxBatch items, and
\* a batch of MaxBatch items is sent at the time its last item arrived.
C9_BatchSizeBounds ==
    last.count > 0
    => /\ Len(last.batch) >= 1
       /\ Len(last.batch) <= MaxBatch
       /\ Len(last.batch) = MaxBatch => last.at = last.last

C9_Witness == last.count > 0 /\ Len(last.batch) = MaxBatch

C11_FailureIsExplicit ==
    (last.count > 0 /\ last.failed)
    => \A j \in 1..Len(last.batch) :
        /\ sub[last.batch[j]].fut # "pending"
        /\ sub[last.batch[j]].fut = "resolved"
           => sub[last.batch[j]].result # Detections("f0")

\* C12: a caller inside detect() has been there for at most DetectCeiling
\* seconds, whatever the batcher's task and the queue's fill are.
C12_CallerWithinCeiling ==
    caller.pc \in {"put", "wait"} => caller.elapsed <= DetectCeiling

C15_TrackerRunsForEveryFrame ==
    \A t \in TaskIds :
        task[t] \in {"unborn", "undecoded", "pending", "cancelled", "timedout", "tracked"}

\* the detections of update call k
Shown(k) == {tracker.log[k].dets[j] : j \in 1..Len(tracker.log[k].dets)}

\* the number of latest consecutive update calls that showed object o
RECURSIVE StreakUpTo(_, _)
StreakUpTo(o, k) ==
    IF k = 0 \/ o \notin Shown(k) THEN 0 ELSE 1 + StreakUpTo(o, k - 1)

Streak(o) == StreakUpTo(o, Len(tracker.log))

\* the tracks whose last matched detection shows object o
TracksOf(o) == {t \in tracker.tracked_objects : t.last_detection = o}

\* C16: every update call that received no detections ran to the end of
\* update, through the step that degrades the unmatched tracks.
C16_EmptyUpdateAdvances ==
    \A k \in 1..Len(tracker.log) :
        tracker.log[k].dets = <<>> => tracker.log[k].reached = "done"

\* C17: an object shown by the latest k >= 1 consecutive updates has a
\* track that was matched in each of them (k entries of history, no miss);
\* with n_init = 3 that track is tentative for k < 3 and confirmed from the
\* third on.
C17_TrackAfterConsecutiveMatches ==
    \A o \in Objects :
        Streak(o) >= 1
        => \E t \in TracksOf(o) :
            /\ t.matches = Streak(o)
            /\ t.consecutive_misses = 0
            /\ t.confirmed = (Streak(o) >= 3)

\* C18: an object that was shown, then missed for one update, then shown
\* again, all at once (well within max_age), is matched to its track again:
\* the track was not removed and its miss counter is back at zero.
C18_RematchedTrackIsKept ==
    \A o \in Objects :
        LET n == Len(tracker.log) IN
        (n >= 3 /\ o \in Shown(n) /\ o \notin Shown(n - 1) /\ o \in Shown(n - 2))
        => \E t \in TracksOf(o) :
            /\ t.consecutive_misses = 0
            /\ t.matches >= 2

\* the track ids update call k returned
IdsReturned(k) ==
    {tracker.log[k].returned[j].track_id : j \in 1..Len(tracker.log[k].returned)}

\* C19: every detection of an update is returned with a track id, and the
\* id of a detection whose object the call before did not show (a newly
\* spawned track) was returned by no earlier call.
C19_FreshTrackIds ==
    \A k \in 1..Len(tracker.log) :
        \A j \in 1..Len(tracker.log[k].dets) :
            \E r \in 1..Len(tracker.log[k].returned) :
                /\ tracker.log[k].returned[r].detection = tracker.log[k].dets[j]
                /\ (k = 1 \/ tracker.log[k].dets[j] \notin Shown(k - 1))
                   => \A e \in 1..(k - 1) :
                        tracker.log[k].returned[r].track_id \notin IdsReturned(e)

CellsOf(b) == ((b[1])..(b[3] - 1)) \X ((b[2])..(b[4] - 1))

\* C21: _calculate_iou returns the area common to the two boxes over the
\* area they cover together: 25/175 for [0,0,10,10] and [5,5,15,15], 0 for
\* boxes that share no area (a box of no area among them, with no division
\* by zero), 1 for two equal boxes of positive area; the result is the same
\* with the arguments swapped and lies between 0 and 1.
C21_IouIsIntersectionOverUnion ==
    iou.called
    => LET r == iou.there
           common == Cardinality(CellsOf(iou.bbox1) \cap CellsOf(iou.bbox2))
           covered == Cardinality(CellsOf(iou.bbox1) \cup CellsOf(iou.bbox2))
       IN /\ r.den > 0
          /\ r.num = common * InvEpsilon
          /\ covered > 0 => r.den = covered * InvEpsilon
          /\ (iou.bbox1 = <<0, 0, 10, 10>> /\ iou.bbox2 = <<5, 5, 15, 15>>)
             => (r.num = 25 * InvEpsilon /\ r.den = 175 * InvEpsilon)
          /\ common = 0 => r.num = 0
          /\ (iou.bbox1 = iou.bbox2 /\ covered > 0) => r.num = r.den
          /\ r = iou.back
          /\ 0 <= r.num /\ r.num <= r.den

\* the two boxes of the example
C21_Witness ==
    /\ iou.called
    /\ iou.bbox1 = <<0, 0, 10, 10>> /\ iou.bbox2 = <<5, 5, 15, 15>>
    /\ iou.there = [num |-> 25 * InvEpsilon, den |-> 175 * InvEpsilon]

\* the processing tasks of client c that are still pending
PendingTasksOf(c) ==
    {t \in TaskIds : task[t] = "pending"
                     /\ \E s \in Sessions : cid[s] = c /\ curTask[s] = t}

\* C22: at most one processing task of a client exists at any time: the
\* handling of a client's next frame starts only after the handling of its
\* previous frame has completed, failed or timed out.
C22_OneTaskPerClient ==
    \A c \in Clients : Cardinality(PendingTasksOf(c)) <= 1

EntriesOf(c) ==
    <<hActive[c], hTasks[c], mConn[c], mHeart[c], mQueue[c],
      [s \in {r \in Sessions : cid[r] = c} |-> ws[s]],
      IF hTasks[c] = NoTask THEN "none" ELSE task[hTasks[c]]>>

\* this step closes or fails client a: a socket of a is closed, a handler
\* call of a leaves its loop or cleans up, a send to a fails, or the sweep
\* disconnects a
ClosingStep(a) ==
    \/ \E s \in Sessions :
        /\ cid[s] = a
        /\ \/ ws[s].state # "closed" /\ ws'[s].state = "closed"
           \/ pc[s] \in {"receive", "cleanup", "disconnect"} /\ pc'[s] # pc[s]
                /\ pc'[s] # "await_task"
    \/ sender.client = a /\ sender.pc \in {"send", "close"} /\ sender' # sender
    \/ sweepPc = "scan" /\ a \in sweepTodo /\ a \notin sweepTodo'
    \/ sweepPc = "scan" /\ sweepCur' = a
    \/ sweepPc = "close" /\ sweepCur = a /\ sweepPc' = "scan"

\* C24: a step that closes or fails client a leaves the connection,
\* heartbeat, queue and processing-task entries of every other client b,
\* b's sockets and b's task as they were.
C24_FailureStaysWithItsClient ==
    [][\A a \in Clients :
        ClosingStep(a)
        => \A b \in Clients \ {a} : EntriesOf(b)' = EntriesOf(b)]_vars

\* client a's handler call has cleaned up while client b is in its message
\* loop with a pending processing task
C24_Witness ==
    \E a, b \in Clients :
        /\ a # b
        /\ closes[a] >= 1
        /\ hActive[b].present /\ ws[hActive[b].websocket].state = "open"
        /\ hTasks[b] # NoTask /\ task[hTasks[b]] = "pending"

\* the state of the session of connection s: its loop position, its socket,
\* the way it ended, and the entries held for its client
SessionState(s) ==
    <<pc[s], ws[s], exitPath[s], hActive[cid[s]], mConn[cid[s]],
      mHeart[cid[s]], mQueue[cid[s]]>>

\* in this step a frame message of connection s fails to decode
DecodeFails(s) ==
    /\ pc[s] = "receive" /\ pc'[s] = "receive"
    /\ \E t \in TaskIds : task[t] = "unborn" /\ task'[t] = "undecoded"

\* in this step the wait for the processing task of connection s ends with
\* the task's exception or with the 5-second timeout
ProcessingFails(s) ==
    /\ pc[s] = "await_task" /\ pc'[s] # "await_task"
    /\ task'[curTask[s]] \in {"failed", "timedout"}

\* C25: when a frame of a connection cannot be decoded, or its processing
\* raises or is timed out, the connection is back at the read of its next
\* message with its socket, its client's entries and its way out as they
\* were before the failure.
C25_FrameFailureIsLocal ==
    [][\A s \in Sessions :
        /\ DecodeFails(s) => SessionState(s)' = SessionState(s)
        /\ ProcessingFails(s)
           => /\ SessionState(s)' = [SessionState(s) EXCEPT ![1] = "receive"]
              /\ hTasks' = hTasks]_vars

\* the one connection there is had a frame that failed or timed out and is
\* now processing its next frame
C25_Witness ==
    \E s \in Sessions :
        /\ \A r \in Sessions \ {s} : pc[r] = "idle"
        /\ pc[s] = "await_task" /\ ws[s].state = "open"
        /\ task[curTask[s]] = "pending"
        /\ \E t \in TaskIds : t < curTask[s] /\ task[t] \in {"failed", "timedout"}

\* C26: a connection that accepted a frame and has ended either sent the
\* client an answer for the frame (a result or an error-typed message; the
\* task is then marked "answered"), or was closed through the timeout path,
\* or was left by the client itself.
C26_NoSilentStall ==
    \A s \in Sessions :
        (pc[s] = "done" /\ curTask[s] # NoTask)
        => \/ task[curTask[s]] = "answered"
           \/ exitPath[s] \in {"timeout", "disconnect"}

\* IoU of track i's predicted box and detection j's box is at least 0.3,
\* counted on the unit squares the boxes cover
IouAtLeastThreshold(i, j) ==
    LET p == CellsOf(assoc.predictions[i])
        d == CellsOf(assoc.detections[j])
    IN 10 * Cardinality(p \cap d) >= IouThresholdTenths * Cardinality(p \cup d)

\* C27: every matched (track, detection) pair has IoU at least 0.3 (cost at
\* most 1 - iou_threshold); an assigned pair below that leaves its track
\* and its detection unmatched; and the matched and the unmatched tracks,
\* and the matched and the unmatched detections, partition the inputs.
C27_GateAndPartition ==
    assoc.called
    => LET tracks == 1..Len(assoc.predictions)
           dets == 1..Len(assoc.detections)
           mt == {a[1] : a \in assoc.matches}
           md == {a[2] : a \in assoc.matches}
       IN
       /\ \A a \in assoc.matches : IouAtLeastThreshold(a[1], a[2])
       /\ \A a \in assoc.assigned :
            ~IouAtLeastThreshold(a[1], a[2])
            => /\ a[1] \in assoc.unmatched_tracks
               /\ a[2] \in assoc.unmatched_detections
       /\ mt \cup assoc.unmatched_tracks = tracks
       /\ mt \cap assoc.unmatched_tracks = {}
       /\ md \cup assoc.unmatched_detections = dets
       /\ md \cap assoc.unmatched_detections = {}

\* one assigned pair passed the gate and another did not
C27_Witness ==
    /\ assoc.called
    /\ assoc.matches # {}
    /\ \E a \in assoc.assigned \ assoc.matches :
        /\ a[1] \in assoc.unmatched_tracks
        /\ a[2] \in assoc.unmatched_detections

\* C28: an update with detections returns one entry per detection, in
\* their order, with pairwise distinct track ids, and a detection of an
\* object the update before showed too carries the track id it had there.
C28_OneEntryPerDetection ==
    \A k \in 1..Len(tracker.log) :
        LET e == tracker.log[k] IN
        e.dets # <<>>
        => /\ Len(e.returned) = Len(e.dets)
           /\ \A j \in 1..Len(e.dets) : e.returned[j].detection = e.dets[j]
           /\ \A i, j \in 1..Len(e.dets) :
                i # j => e.returned[i].track_id # e.returned[j].track_id
           /\ k > 1
              => \A j \in 1..Len(e.dets) :
                    e.dets[j] \in Shown(k - 1)
                    => \E r \in 1..Len(tracker.log[k - 1].returned) :
                        /\ tracker.log[k - 1].returned[r].detection = e.dets[j]
                        /\ tracker.log[k - 1].returned[r].track_id
                               = e.returned[j].track_id

\* C29: no component of a velocity has denominator 0; with two history
\* points or more and a positive time between the last two, each component
\* times that time is the displacement between the last two positions;
\* in every other case the velocity is (0, 0).
C29_VelocityIsDisplacementOverTime ==
    velo.called
    => LET h == velo.history
           n == Len(h)
           v == velo.velocity
       IN
       /\ v[1].den # 0 /\ v[2].den # 0
       /\ IF n >= 2 /\ h[n].timestamp > h[n - 1].timestamp
          THEN LET dt == h[n].timestamp - h[n - 1].timestamp IN
               /\ v[1].num * dt = (h[n].position[1] - h[n - 1].position[1]) * v[1].den
               /\ v[2].num * dt = (h[n].position[2] - h[n - 1].position[2]) * v[2].den
          ELSE /\ v[1].num = 0
               /\ v[2].num = 0

\* three points: the first two apart in time, the last two at the same time
\* and at different places
C29_Witness ==
    /\ velo.called
    /\ Len(velo.history) = 3
    /\ velo.history[2].timestamp > velo.history[1].timestamp
    /\ velo.history[3].timestamp = velo.history[2].timestamp
    /\ velo.history[3].position # velo.history[2].position
    /\ velo.velocity = ZeroVelocity

\* C30: after _update_track the track's miss counter is 0, its last-seen
\* time is the update time, and its history is the history before with one
\* point added at the update time, cut to its last 30 points.
C30_UpdateResetsAndAppends ==
    track.called
    => LET b == track.before
           a == track.after
       IN
       /\ a.consecutive_misses = 0
       /\ a.last_seen = track.current_time
       /\ Len(a.history) = Min(Len(b.history) + 1, HistoryLimit)
       /\ a.history[Len(a.history)].timestamp = track.current_time
       /\ \A k \in 1..(Len(a.history) - 1) :
            a.history[k] = b.history[k + Len(b.history) + 1 - Len(a.history)]

\* C31: a fingerprint is a cache key of its own frame only: a detect() call
\* that was answered from the cache got the result of the frame it passed,
\* never one stored for another frame under a fingerprint they share.
C31_CacheKeyIsOfOneFrame ==
    \A i \in SubIds :
        sub[i].outcome = "cached" => sub[i].value = Detections(sub[i].frame)

\* C32: the three tables of the manager have the same keys: a client id has
\* a connection entry exactly when it has a heartbeat entry and exactly
\* when it has a queue entry.
C32_TablesShareKeys ==
    \A c \in Clients :
        /\ (mConn[c] # NoSocket) = (mHeart[c] # NoBeat)
        /\ (mConn[c] # NoSocket) = mQueue[c].present

\* a client whose entries a disconnect has deleted, next to a client that
\* has its three entries
C32_Witness ==
    \E a, b \in Clients :
        /\ a # b
        /\ mConn[a] = NoSocket /\ \E s \in Sessions : cid[s] = a /\ pc[s] = "managed"
        /\ mConn[b] # NoSocket /\ mHeart[b] # NoBeat /\ mQueue[b].present

\* what a send_message call can change besides its own position: the
\* connection entry, the socket, the queue and the histories
OutboxState ==
    <<outbox.connected, outbox.socket, outbox.queue, outbox.backlog,
      outbox.enq, outbox.sent>>

\* C33: the queue never holds more than 100 messages; a call whose put
\* waited on the full queue gives up after one time unit, and then the
\* message is dropped while the connection, the socket and the contents of
\* the queue stay as they are; a call for a client that is not connected
\* returns without an error and changes nothing.
C33_QueueBoundedAndDropLeavesState ==
    /\ [](QueueSize <= OutboundQueueSize)
    /\ [][\A k \in Senders :
            /\ (outbox.call[k].pc = "blocked" /\ outbox'.call[k].pc = "done")
               => /\ outbox.call[k].waited = PutTimeoutUnits
                  /\ outbox'.call[k].outcome = "dropped"
                  /\ OutboxState' = OutboxState
            /\ (outbox.call[k].pc = "idle" /\ ~outbox.connected
                    /\ outbox'.call[k] # outbox.call[k])
               => /\ outbox'.call[k].outcome = "not_connected"
                  /\ outbox'.call[k].pc = "done"
                  /\ OutboxState' = OutboxState]_vars

\* one call returned at once for want of a connection, another gave up on
\* the full queue of the client connected since
C33_Witness ==
    /\ \E k \in Senders : outbox.call[k].outcome = "not_connected"
    /\ \E k \in Senders : outbox.call[k].outcome = "dropped"
    /\ QueueSize = OutboundQueueSize
    /\ outbox.connected /\ outbox.socket = "open"

\* C34: while the socket is open, the messages handed to it followed by the
\* messages still on the queue are the messages that were put, in the order
\* they were put: each is sent once, none is skipped, none overtakes.
C34_SentOnceInOrder ==
    (outbox.socket = "open" /\ outbox.backlog = 0)
    => outbox.sent \o outbox.queue = outbox.enq

\* every call has put its message before any was sent, and the sends of
\* two calls are under way at once
C34_Witness ==
    /\ outbox.socket = "open"
    /\ Len(outbox.sent) >= 2
    /\ \E j, k \in Senders :
        j # k /\ outbox.call[j].pc = "sending" /\ outbox.call[k].pc = "sending"

\* C35: a detect() call made while the cache holds a live entry for the
\* frame's fingerprint returns the stored value (the empty detection list
\* included) and puts nothing on the batch queue
C35_CacheRoundTrip ==
    [][\A i \in SubIds :
          (/\ sub[i].outcome = "none"
           /\ sub'[i].outcome # "none"
           /\ CacheHas(FrameHash(sub'[i].frame)))
          => /\ sub'[i].outcome = "cached"
             /\ sub'[i].value = cache[FrameHash(sub'[i].frame)].value
             /\ bq' = bq]_vars

\* C36: the steps of a refused duplicate attempt (its close with 4001, its
\* cleanup, its return) change nothing of the other attempts made with the
\* id: no task of theirs is cancelled, and the id's entries in
\* _active_connections, _processing_tasks and the manager's tables stay
C36_RefusalLeavesSessionUntouched ==
    [][\A a \in Attempts :
          (/\ handler'.call[a].exit = "refused"
           /\ handler'.call[a] # handler.call[a])
          => /\ \A b \in Attempts \ {a} : handler'.call[b] = handler.call[b]
             /\ handler'.active_connections = handler.active_connections
             /\ handler'.processing_tasks = handler.processing_tasks
             /\ handler'.manager = handler.manager]_vars

\* the reconnections accepted so far for the id
AcceptedReconnections == {b \in Attempts : handler.call[b].exit = "replaced"}

\* C37: a reconnection is accepted only after its backoff sleep, and once
\* max_reconnect_attempts reconnections have been accepted for an id that is
\* still registered, every further attempt with the id is refused
C37_ReconnectionsBounded ==
    /\ [](\A a \in Attempts :
            handler.call[a].exit = "replaced" => handler.call[a].slept)
    /\ [][\A a \in Attempts :
            (/\ handler.call[a].pc = "idle"
             /\ handler'.call[a].pc # "idle"
             /\ handler.active_connections.present
             /\ Cardinality(AcceptedReconnections) >= MaxReconnectAttempts)
            => handler'.call[a].exit = "refused"]_vars

\* C38: a message of a client the manager holds refreshes the client's
\* heartbeat, and the sweep does not select as stale a client a message of
\* which arrived within the current 30 seconds, when the clients in their
\* message loops send in every 30 seconds
C38_SweepSparesLiveSessions ==
    [][\A c \in Clients :
          /\ (c \in heard' /\ c \notin heard /\ mHeart[c] # NoBeat)
             => mHeart'[c] = now
          /\ (c \in heard /\ c \notin sweepTodo) => c \notin sweepTodo']_vars

\* submission i is in a sequence of the batcher; at exactly one position
In(q, i) == \E j \in 1..Len(q) : q[j] = i
Once(q, i) == \E j \in 1..Len(q) : q[j] = i /\ \A k \in 1..Len(q) : q[k] = i => k = j

\* a batch goes to the detector in this step
Dispatched == last' # last

\* C39: a frame put on the batch queue leaves it only into the batch being
\* collected, leaves that batch only with its dispatch, is in the dispatched
\* batch once, and never comes back to the queue or to a later batch; and
\* when the detector call of an iteration raises, no handle of the batch
\* that iteration collected is left pending
C39_OneBatchEachAndNoneLeftPending ==
    /\ [](\A i \in SubIds : In(bq \o batch, i) => Once(bq \o batch, i))
    /\ [][\A i \in SubIds :
            /\ (In(bq, i) /\ ~In(bq', i))
               => \/ In(batch', i)
                  \/ Dispatched /\ Once(last'.batch, i)
            /\ (In(batch, i) /\ ~In(batch', i))
               => Dispatched /\ Once(last'.batch, i)
            /\ (sub[i].outcome # "none" /\ ~In(bq, i)) => ~In(bq', i)
            /\ (sub[i].outcome # "none" /\ ~In(bq \o batch, i))
               => /\ ~In(batch', i)
                  /\ ~(Dispatched /\ In(last'.batch, i))
            /\ (Dispatched /\ last'.failed /\ In(last'.batch, i))
               => sub'[i].fut # "pending"]_vars

\* the detector call of a batch of two raised, both handles are resolved,
\* and the next frame is already waiting in the queue
C39_Witness ==
    /\ last.count > 0
    /\ last.failed
    /\ Len(last.batch) >= 2
    /\ \A j \in 1..Len(last.batch) : sub[last.batch[j]].fut = "resolved"
    /\ bq # <<>>

====
